---- MODULE Spec2Model ----
(***************************************************************************)
(* A model of oci-context: the context store (pkg/config), the daemon that *)
(* serves it over a Unix socket (internal/daemon, internal/ipc) and the    *)
(* interactive picker (internal/cmd tui).                                  *)
(*                                                                         *)
(* Seven specifications share the store operators:                         *)
(*   Spec        the in-memory store under UpsertContext / DeleteContext   *)
(*   SpecDaemon  the connection handlers of one daemon, interleaved        *)
(*               statement by statement                                    *)
(*   SpecShared  one connection of the daemon and one CLI command on the   *)
(*               same config path, serialised by the lock file             *)
(*   SpecCli     two CLI commands on the same config path                  *)
(*   SpecTui     the picker's Update loop with its asynchronous fetches    *)
(*   SpecTenancies  the picker started in its tenancy list, over every set *)
(*               of profiles and every default profile                     *)
(*   SpecPrime   one call of primeTenancyNames with the goroutines it      *)
(*               starts, statement by statement                            *)
(***************************************************************************)
EXTENDS Integers, Sequences, FiniteSets, Bags, TLC

VARIABLES
    cfg,        \* Spec: the Config under test (Contexts, CurrentContext)
    ret,        \* Spec: the last store call and the error it returned
    latest,     \* Spec: history, name -> argument of the latest UpsertContext
    file,       \* the persisted document at the config path
    lock,       \* the holder of the advisory lock <path>.lock, or NoHolder
    svc,        \* the daemon's Service.cfg, shared by all handlers
    pc,         \* process -> the statement it is at
    req,        \* connection -> the request being handled
    loc,        \* process -> locals (loop index, Save's copy of the Config)
    resp,       \* connection -> the response built / last written
    nread,      \* connection -> request lines read
    nwritten,   \* connection -> response lines written
    crashed,    \* the daemon process died of an unrecovered panic
    saveFailed, \* history: a Save of a handler or of the CLI returned an error
    spare,      \* the store's backing array beyond len(s.cfg.Contexts)
    cli,        \* CLI process -> its command, loaded Config and result
    m,          \* SpecTui: the picker's tuiModel
    cmds,       \* SpecTui: commands running and messages not yet delivered
    prog,       \* SpecTui: the picker program: "off", "running", "quit",
                \* or "crashed" (ended by a fatal error of the runtime)
    nupd,       \* SpecTui: how many messages Update has handled
    nsave,      \* SpecTui: how many times the picker has called Save
    tenancyNames,   \* the tenancy name cache: tenancy OCID -> friendly name
    tenancyNamesMu, \* its sync.RWMutex: the writer and the count of readers
    prime,      \* SpecPrime: the primeTenancyNames call and its locals
    gor,        \* SpecPrime: tenancy OCID -> the goroutine started for it
    sem,        \* SpecPrime: how many values the channel sem holds
    wg,         \* SpecPrime: the counter of the WaitGroup
    nlookup     \* SpecPrime: tenancy OCID -> calls of fetchIdentityDetails

storeVars == <<cfg, ret, latest>>

daemonVars ==
    <<file, lock, svc, pc, req, loc, resp, nread, nwritten, crashed,
      saveFailed, spare, cli>>

primeVars == <<tenancyNames, tenancyNamesMu, prime, gor, sem, wg, nlookup>>

tuiVars == <<m, cmds, prog, nupd, nsave, primeVars>>

vars == <<cfg, ret, latest,
          file, lock, svc, pc, req, loc, resp, nread, nwritten, crashed,
          saveFailed, spare, cli,
          m, cmds, prog, nupd, nsave,
          tenancyNames, tenancyNamesMu, prime, gor, sem, wg, nlookup>>

-----------------------------------------------------------------------------
(* Values *)

\* A nil error.
Nil == "<nil>"

\* config.ErrContextNotFound
ErrContextNotFound == "context not found"

\* config.Context (User and Notes are carried along unread and are left out).
Ctx(n, p, t, c, r) ==
    [name |-> n, profile |-> p, tenancy |-> t, compartment |-> c, region |-> r]

\* The zero value config.Context{}.
ZeroContext == Ctx("", "", "", "", "")

\* config.Config (Options are read-only after load and are left out here).
Config(contexts, current) == [contexts |-> contexts, current |-> current]

\* DefaultConfig: no contexts, no current context.
DefaultConfig == Config(<<>>, "")

-----------------------------------------------------------------------------
(* pkg/config: the store operations as pure functions of the Config value *)

\* Position of the first context named name, 0 when there is none
\* (the `for i, ctx := range c.Contexts` scans).
IndexOf(contexts, name) ==
    IF \E i \in 1..Len(contexts) : contexts[i].name = name
    THEN CHOOSE i \in 1..Len(contexts) :
            /\ contexts[i].name = name
            /\ \A j \in 1..(i - 1) : contexts[j].name # name
    ELSE 0

\* Fault variant of GetContext: the lookup never fails.
GetContext_AlwaysFound(c, name) ==
    LET i == IndexOf(c.contexts, name)
    IN  [ctx |-> IF i = 0 THEN ZeroContext ELSE c.contexts[i], err |-> Nil]

\* GetContext: the context and a nil error, or the zero context and not-found.
GetContext(c, name) ==
    LET i == IndexOf(c.contexts, name)
    IN  IF i = 0
        THEN [ctx |-> ZeroContext, err |-> ErrContextNotFound]
        ELSE [ctx |-> c.contexts[i], err |-> Nil]

\* Fault variant of UpsertContext: appends without looking for the name.
UpsertContext_AlwaysAppend(c, ctx) ==
    Config(Append(c.contexts, ctx),
           IF c.current = "" THEN ctx.name ELSE c.current)

\* Fault variant of UpsertContext: every appended context becomes current.
UpsertContext_AlwaysCurrent(c, ctx) ==
    LET i == IndexOf(c.contexts, ctx.name)
    IN  IF i # 0
        THEN Config([c.contexts EXCEPT ![i] = ctx], c.current)
        ELSE Config(Append(c.contexts, ctx), ctx.name)

\* UpsertContext: replace in place by name, else append; an append with no
\* current context makes the appended one current.
UpsertContext(c, ctx) ==
    LET i == IndexOf(c.contexts, ctx.name)
    IN  IF i # 0
        THEN Config([c.contexts EXCEPT ![i] = ctx], c.current)
        ELSE Config(Append(c.contexts, ctx),
                    IF c.current = "" THEN ctx.name ELSE c.current)

\* append(s[:idx], s[idx+1:]...) with idx counted from 1.
RemoveAt(s, idx) ==
    [k \in 1..(Len(s) - 1) |-> IF k < idx THEN s[k] ELSE s[k + 1]]

\* Fault variant of DeleteContext: the entries after the deleted one are
\* dropped with it (c.Contexts[:idx] alone).
DeleteContext_DropTail(c, name) ==
    LET i == IndexOf(c.contexts, name)
    IN  IF i = 0
        THEN [cfg |-> c, err |-> ErrContextNotFound]
        ELSE [cfg |-> Config(SubSeq(c.contexts, 1, i - 1),
                             IF c.current = name THEN "" ELSE c.current),
              err |-> Nil]

\* Fault variant of DeleteContext: currentContext is never cleared.
DeleteContext_KeepCurrent(c, name) ==
    LET i == IndexOf(c.contexts, name)
    IN  IF i = 0
        THEN [cfg |-> c, err |-> ErrContextNotFound]
        ELSE [cfg |-> Config(RemoveAt(c.contexts, i), c.current), err |-> Nil]

\* DeleteContext: not-found leaves c alone; else the entry is cut out and a
\* current context of that name is cleared.
DeleteContext(c, name) ==
    LET i == IndexOf(c.contexts, name)
    IN  IF i = 0
        THEN [cfg |-> c, err |-> ErrContextNotFound]
        ELSE [cfg |-> Config(RemoveAt(c.contexts, i),
                             IF c.current = name THEN "" ELSE c.current),
              err |-> Nil]

\* Context.Validate: the first missing required field, or nil.
Validate(ctx) ==
    IF ctx.name = "" THEN "context name is required"
    ELSE IF ctx.profile = "" THEN "context profile is required"
    ELSE IF ctx.tenancy = "" THEN "context tenancy_ocid is required"
    ELSE IF ctx.compartment = "" THEN "context compartment_ocid is required"
    ELSE Nil

-----------------------------------------------------------------------------
(* Spec: every sequence of UpsertContext / DeleteContext on an empty store *)

\* How many distinct non-empty names the store calls draw from.
MaxNames == 2

NamePool == <<"a", "b", "c", "d">>

\* The names used as arguments: the empty name and MaxNames others.
Names == {""} \cup {NamePool[i] : i \in 1..MaxNames}

\* The field values an upsert may carry for a name: two full settings and
\* the all-empty one.
Variants ==
    { [profile |-> "p1", tenancy |-> "t1", compartment |-> "c1", region |-> ""],
      [profile |-> "p2", tenancy |-> "t1", compartment |-> "c2",
       region |-> "r1"],
      [profile |-> "", tenancy |-> "", compartment |-> "", region |-> ""] }

UpsertArgs ==
    { Ctx(n, v.profile, v.tenancy, v.compartment, v.region) :
        n \in Names, v \in Variants }

\* History value for a name that was never upserted.
NeverUpserted == Ctx("<never>", "", "", "", "")

\* The store of Spec before the first call.
StoreAtRest ==
    /\ cfg = DefaultConfig
    /\ ret = [op |-> "none", name |-> "", ctx |-> ZeroContext, err |-> Nil]
    /\ latest = [n \in Names |-> NeverUpserted]

\* c.UpsertContext(ctx)
Upsert(ctx) ==
    /\ cfg' = UpsertContext(cfg, ctx)
    /\ ret' = [op |-> "upsert", name |-> ctx.name, ctx |-> ctx, err |-> Nil]
    /\ latest' = [latest EXCEPT ![ctx.name] = ctx]
    /\ UNCHANGED <<daemonVars, tuiVars>>

\* c.DeleteContext(name)
Delete(name) ==
    /\ cfg' = DeleteContext(cfg, name).cfg
    /\ ret' = [op |-> "delete", name |-> name, ctx |-> ZeroContext,
               err |-> DeleteContext(cfg, name).err]
    /\ UNCHANGED <<latest, daemonVars, tuiVars>>

-----------------------------------------------------------------------------
(* The daemon (internal/ipc handleConn, internal/daemon Service) and one   *)
(* CLI process, all working on the same config path                        *)

\* The accepted connections; Serve starts one handleConn goroutine for each.
Conns == {"c1", "c2"}

\* A CLI invocation (add / delete / use) running beside the daemon.
CliProc == "cli"

\* The CLI invocations that may run at the same time on one config path.
CliProcs == {CliProc, "cli2"}

Procs == Conns \cup CliProcs

\* The lock file is held by nobody.
NoHolder == "<free>"

\* Request lines the daemon reads in all, over its connections.
MaxReqs == 2

\* ipc.ErrNotImplemented
ErrNotImplemented == "method not implemented"

ErrInvalidRequest == "invalid request"

ErrNoCurrent == "no current context set"

\* json.Unmarshal's error for a payload that is absent or no object.
ErrDecode == "unexpected end of JSON input"

\* flock.Lock failed (the lock file cannot be opened or locked).
ErrLock == "lock: cannot acquire"

\* os.WriteFile failed.
ErrWrite == "write: cannot write file"

ErrUnsupportedFormat(f) == "unsupported format: " \o f

CtxA == Ctx("a", "p1", "t1", "c1", "r1")

CtxB == Ctx("b", "p1", "t1", "c1", "")

CtxB2 == Ctx("b", "p2", "t1", "c2", "")

\* A payload without compartment: Validate rejects it.
CtxNoCompartment == Ctx("a", "p1", "t1", "", "")

\* The names requests and commands carry.
DNames == {"a", "b"}

\* The documents the config file may hold when the daemon starts.
InitDocs ==
    { DefaultConfig,
      Config(<<CtxA, CtxB>>, "a") }

\* ipc.Request after json.Unmarshal; wellFormed is FALSE for a line that is
\* not JSON, decodes is FALSE for a context payload json.Unmarshal rejects.
Request(method, n, f, dec, ctx) ==
    [wellFormed |-> TRUE, method |-> method, name |-> n, format |-> f,
     decodes |-> dec, context |-> ctx]

MalformedLine ==
    [wellFormed |-> FALSE, method |-> "", name |-> "", format |-> "",
     decodes |-> FALSE, context |-> ZeroContext]

RequestLines ==
    {MalformedLine}
    \cup {Request("get_current", "", "", FALSE, ZeroContext),
          Request("list", "", "", FALSE, ZeroContext),
          Request("status", "", "", FALSE, ZeroContext),
          Request("watch", "", "", FALSE, ZeroContext)}
    \cup {Request("use_context", n, "", FALSE, ZeroContext) : n \in DNames}
    \cup {Request("delete_context", n, "", FALSE, ZeroContext) : n \in DNames}
    \cup {Request("add_context", "", "", TRUE, x) :
             x \in {CtxB2, CtxNoCompartment}}
    \cup {Request("add_context", "", "", FALSE, ZeroContext)}
    \cup {Request("export", "", f, FALSE, ZeroContext) :
             f \in {"env", "json", "xml"}}

\* ipc.Response
NoData == [kind |-> "none", val |-> ""]

Data(kind, val) == [kind |-> kind, val |-> val]

Ok(data) == [ok |-> TRUE, error |-> "", data |-> data]

Fail(err) == [ok |-> FALSE, error |-> err, data |-> NoData]

\* No response built yet.
NoResp == [ok |-> FALSE, error |-> "<none>", data |-> NoData]

\* A process's locals: the loop index found by a scan (0: none), the Config
\* value passed to Save, Save's result.  alias says that the slice the
\* process holds (snap.Contexts, or the data of a list response) still has
\* the backing array of s.cfg.Contexts; snap.contexts and the response data
\* are kept as what that slice shows.  hist is history, kept for the
\* handlers that return or save the list: the values s.cfg.Contexts has had
\* since the handler's request was read.  since is history too: the CLI
\* commands that had ended without an error when the request was read.
LocInit ==
    [i |-> 0, snap |-> DefaultConfig, wrote |-> FALSE, err |-> Nil,
     alias |-> FALSE, hist |-> {}, since |-> {}]

\* The backing array of s.cfg.Contexts: the slice and what lies beyond its
\* length up to its capacity.
BackingArray == svc.contexts \o spare

\* What a slice of the length of view shows of a backing array arr.
Seen(view, arr) == SubSeq(arr, 1, Len(view))

\* The handlers' locals once the store's backing array holds arr.
LocThrough(arr) ==
    [p \in Procs |->
        IF loc[p].alias
        THEN [loc[p] EXCEPT !.snap.contexts = Seen(@, arr)]
        ELSE loc[p]]

\* The responses not yet marshalled once the store's backing array holds
\* arr.
RespThrough(arr) ==
    [c \in Conns |->
        IF loc[c].alias /\ resp[c].data.kind = "contexts"
        THEN [resp[c] EXCEPT !.data.val = Seen(@, arr)]
        ELSE resp[c]]

\* append beyond the capacity allocates a new array: the slices handlers
\* hold keep the old one, which nothing writes any more.
LocDetached == [p \in Procs |-> [loc[p] EXCEPT !.alias = FALSE]]

\* The locals l with the store's new slice noted in the history of every
\* connection whose handler has a request in hand.
Noted(l, contexts) ==
    [p \in Procs |->
        IF l[p].hist # {}
        THEN [l[p] EXCEPT !.hist = @ \cup {contexts}]
        ELSE l[p]]

\* growslice for a full slice of n elements: the capacity doubles (1 for
\* an empty slice); the elements beyond the appended one are zero.
Grown(n) ==
    [k \in 1..((IF n = 0 THEN 1 ELSE 2 * n) - (n + 1)) |-> ZeroContext]

\* Service.export's lines for format "env".
EnvLines(c) ==
    LET base == << <<"OCI_CLI_PROFILE", c.profile>>,
                   <<"OCI_TENANCY_OCID", c.tenancy>>,
                   <<"OCI_COMPARTMENT_OCID", c.compartment>> >>
    IN  IF c.region # "" THEN Append(base, <<"OCI_REGION", c.region>>) ELSE base

\* Fault variant of Dispatch: addContext upserts without calling Validate.
Dispatch_NoValidate(r) ==
    IF ~r.wellFormed
    THEN [pc |-> "resp", resp |-> Fail(ErrInvalidRequest)]
    ELSE CASE r.method \in {"get_current", "export"} ->
                    [pc |-> "gc_chk", resp |-> NoResp]
           [] r.method = "list" -> [pc |-> "list", resp |-> NoResp]
           [] r.method = "use_context" -> [pc |-> "uc_get", resp |-> NoResp]
           [] r.method = "add_context" ->
                IF ~r.decodes
                THEN [pc |-> "resp", resp |-> Fail(ErrDecode)]
                ELSE [pc |-> "up_scan", resp |-> NoResp]
           [] r.method = "delete_context" ->
                    [pc |-> "del_scan", resp |-> NoResp]
           [] OTHER -> [pc |-> "resp", resp |-> Fail(ErrNotImplemented)]

\* Service.handle's switch, up to the first statement that touches s.cfg:
\* the statement to continue at, or the response when there is none.
Dispatch(r) ==
    IF ~r.wellFormed
    THEN [pc |-> "resp", resp |-> Fail(ErrInvalidRequest)]
    ELSE CASE r.method = "get_current" -> [pc |-> "gc_chk", resp |-> NoResp]
           [] r.method = "list" -> [pc |-> "list", resp |-> NoResp]
           [] r.method = "use_context" -> [pc |-> "uc_get", resp |-> NoResp]
           [] r.method = "add_context" ->
                IF ~r.decodes
                THEN [pc |-> "resp", resp |-> Fail(ErrDecode)]
                ELSE IF Validate(r.context) # Nil
                THEN [pc |-> "resp", resp |-> Fail(Validate(r.context))]
                ELSE [pc |-> "up_scan", resp |-> NoResp]
           [] r.method = "delete_context" ->
                    [pc |-> "del_scan", resp |-> NoResp]
           [] r.method = "export" -> [pc |-> "gc_chk", resp |-> NoResp]
           [] OTHER -> [pc |-> "resp", resp |-> Fail(ErrNotImplemented)]

\* The data a mutating method returns once Save has returned nil.
Saved(r) ==
    CASE r.method = "use_context" -> Ok(Data("current_context", r.name))
      [] r.method = "add_context" -> Ok(Data("context", r.context))
      [] r.method = "delete_context" -> Ok(Data("deleted", r.name))
      [] OTHER -> Ok(NoData)

\* The daemon and the CLI before the first request.
DaemonAtRest ==
    /\ lock = NoHolder
    /\ svc = file
    /\ pc = [p \in Procs |-> IF p \in Conns THEN "read" ELSE "idle"]
    /\ req = [c \in Conns |-> MalformedLine]
    /\ loc = [p \in Procs |-> LocInit]
    /\ resp = [c \in Conns |-> NoResp]
    /\ nread = [c \in Conns |-> 0]
    /\ nwritten = [c \in Conns |-> 0]
    /\ crashed = FALSE
    /\ saveFailed = FALSE
    /\ spare = <<>>
    /\ cli = [q \in CliProcs |->
                [cmd |-> "none", name |-> "", ctx |-> ZeroContext,
                 cfg |-> DefaultConfig, err |-> Nil]]

\* handleConn: rw.ReadBytes returned a line; json.Unmarshal and the handler's
\* switch follow without touching shared state.
ReadLine(c, r) ==
    /\ pc[c] = "read" /\ ~crashed
    /\ nread["c1"] + nread["c2"] < MaxReqs
    /\ nread' = [nread EXCEPT ![c] = @ + 1]
    /\ req' = [req EXCEPT ![c] = r]
    /\ pc' = [pc EXCEPT ![c] = Dispatch(r).pc]
    /\ resp' = [resp EXCEPT ![c] = Dispatch(r).resp]
    /\ loc' = [loc EXCEPT
                  ![c].hist =
                      IF Dispatch(r).pc
                            \in {"list", "uc_get", "up_scan", "del_scan"}
                      THEN {svc.contexts} ELSE {},
                  ![c].since =
                      IF Dispatch(r).pc = "resp" THEN {}
                      ELSE {q \in CliProcs :
                              /\ pc[q] = "done" /\ cli[q].cmd # "none"
                              /\ cli[q].err = Nil}]
    /\ UNCHANGED <<storeVars, tuiVars, file, lock, svc, nwritten,
                   saveFailed, spare, crashed, cli>>

\* handleConn: rw.ReadBytes returned an error (the client hung up); the loop
\* returns and the deferred c.Close runs.
ReadEOF(c) ==
    /\ pc[c] = "read" /\ ~crashed
    /\ pc' = [pc EXCEPT ![c] = "closed"]
    /\ UNCHANGED <<storeVars, tuiVars, file, lock, svc, req, loc, resp, nread,
                   nwritten, saveFailed, spare, crashed, cli>>

\* writeResp: the response line is written and flushed; the loop iteration
\* ends, its request, response and locals with it, and ReadBytes is next.
WriteResp(c) ==
    /\ pc[c] = "resp" /\ ~crashed
    /\ nwritten' = [nwritten EXCEPT ![c] = @ + 1]
    /\ pc' = [pc EXCEPT ![c] = "read"]
    /\ req' = [req EXCEPT ![c] = MalformedLine]
    /\ resp' = [resp EXCEPT ![c] = NoResp]
    /\ loc' = [loc EXCEPT ![c] = LocInit]
    /\ UNCHANGED <<storeVars, tuiVars, file, lock, svc, nread, crashed,
                   saveFailed, spare, cli>>

\* A handler statement of connection c that ends the handler with response r.
Reply(c, r) ==
    /\ pc' = [pc EXCEPT ![c] = "resp"]
    /\ resp' = [resp EXCEPT ![c] = r]

\* A handler statement of connection c that continues at statement next.
Goto(c, next) ==
    /\ pc' = [pc EXCEPT ![c] = next]
    /\ UNCHANGED resp

\* An unrecovered panic in a handler goroutine: the process exits, every
\* connection is gone and the kernel drops a lock the daemon held.
Panic ==
    /\ crashed' = TRUE
    /\ pc' = [p \in Procs |-> IF p \in Conns THEN "closed" ELSE pc[p]]
    /\ lock' = IF lock \in Conns THEN NoHolder ELSE lock
    /\ UNCHANGED <<storeVars, tuiVars, file, svc, req, loc, resp, nread,
                   nwritten, saveFailed, spare, cli>>

\* getCurrent: if s.cfg.CurrentContext == "" (export starts the same way).
GcChk(c) ==
    /\ pc[c] = "gc_chk" /\ ~crashed
    /\ IF svc.current = ""
       THEN Reply(c, Fail(ErrNoCurrent))
       ELSE Goto(c, "gc_get")
    /\ UNCHANGED <<storeVars, tuiVars, file, lock, svc, req, loc, nread,
                   nwritten, saveFailed, spare, crashed, cli>>

\* getCurrent: s.cfg.GetContext(s.cfg.CurrentContext), then for export the
\* switch on the format.
GcGet(c) ==
    /\ pc[c] = "gc_get" /\ ~crashed
    /\ LET g == GetContext(svc, svc.current)
           f == req[c].format
       IN  IF g.err # Nil THEN Reply(c, Fail(g.err))
           ELSE IF req[c].method = "get_current"
           THEN Reply(c, Ok(Data("context", g.ctx)))
           ELSE IF f = "env" THEN Reply(c, Ok(Data("env", EnvLines(g.ctx))))
           ELSE IF f \in {"json", ""} THEN Reply(c, Ok(Data("context", g.ctx)))
           ELSE Reply(c, Fail(ErrUnsupportedFormat(f)))
    /\ UNCHANGED <<storeVars, tuiVars, file, lock, svc, req, loc, nread,
                   nwritten, saveFailed, spare, crashed, cli>>

\* handle, case "list": return s.cfg.Contexts.
List(c) ==
    /\ pc[c] = "list" /\ ~crashed
    /\ Reply(c, Ok(Data("contexts", svc.contexts)))
    /\ loc' = [loc EXCEPT ![c].alias = TRUE]
    /\ UNCHANGED <<storeVars, tuiVars, file, lock, svc, req, nread,
                   nwritten, saveFailed, spare, crashed, cli>>

\* useContext: if _, err := s.cfg.GetContext(name); err != nil.
UcGet(c) ==
    /\ pc[c] = "uc_get" /\ ~crashed
    /\ IF GetContext(svc, req[c].name).err # Nil
       THEN Reply(c, Fail(GetContext(svc, req[c].name).err))
       ELSE Goto(c, "uc_set")
    /\ UNCHANGED <<storeVars, tuiVars, file, lock, svc, req, loc, nread,
                   nwritten, saveFailed, spare, crashed, cli>>

\* useContext: s.cfg.CurrentContext = name.
UcSet(c) ==
    /\ pc[c] = "uc_set" /\ ~crashed
    /\ svc' = [svc EXCEPT !.current = req[c].name]
    /\ Goto(c, "save_arg")
    /\ UNCHANGED <<storeVars, tuiVars, file, lock, req, loc, nread, nwritten,
                   saveFailed, spare, crashed, cli>>

\* UpsertContext: the range loop over c.Contexts looking for the name.
UpScan(c) ==
    /\ pc[c] = "up_scan" /\ ~crashed
    /\ LET i == IndexOf(svc.contexts, req[c].context.name)
       IN  /\ loc' = [loc EXCEPT ![c].i = i]
           /\ Goto(c, IF i # 0 THEN "up_store" ELSE "up_append")
    /\ UNCHANGED <<storeVars, tuiVars, file, lock, svc, req, nread, nwritten,
                   saveFailed, spare, crashed, cli>>

\* UpsertContext: c.Contexts[i] = ctx; an index beyond the slice's present
\* length panics.  The element is written into the backing array, where
\* every slice that has this array shows it.
UpStore(c) ==
    /\ pc[c] = "up_store" /\ ~crashed
    /\ IF loc[c].i > Len(svc.contexts)
       THEN Panic
       ELSE /\ svc' = [svc EXCEPT !.contexts[loc[c].i] = req[c].context]
            /\ pc' = [pc EXCEPT ![c] = "save_arg"]
            /\ loc' = Noted(LocThrough(svc'.contexts \o spare),
                          svc'.contexts)
            /\ resp' = RespThrough(svc'.contexts \o spare)
            /\ UNCHANGED <<storeVars, tuiVars, file, lock, req, nread,
                           nwritten, saveFailed, spare, crashed, cli>>

\* UpsertContext: c.Contexts = append(c.Contexts, ctx).  With room in the
\* backing array the element is written behind the slice, in place; a full
\* slice is copied into a new array of twice the capacity.
UpAppend(c) ==
    /\ pc[c] = "up_append" /\ ~crashed
    /\ svc' = [svc EXCEPT !.contexts = Append(@, req[c].context)]
    /\ pc' = [pc EXCEPT ![c] = "up_cur"]
    /\ IF spare # <<>>
       THEN /\ spare' = Tail(spare)
            /\ loc' = Noted(LocThrough(svc'.contexts \o spare'),
                          svc'.contexts)
            /\ resp' = RespThrough(svc'.contexts \o spare')
       ELSE /\ spare' = Grown(Len(svc.contexts))
            /\ loc' = Noted(LocDetached, svc'.contexts)
            /\ UNCHANGED resp
    /\ UNCHANGED <<storeVars, tuiVars, file, lock, req, nread, nwritten,
                   saveFailed, crashed, cli>>

\* UpsertContext: if c.CurrentContext == "" { c.CurrentContext = ctx.Name }.
UpCur(c) ==
    /\ pc[c] = "up_cur" /\ ~crashed
    /\ svc' = [svc EXCEPT !.current =
                  IF @ = "" THEN req[c].context.name ELSE @]
    /\ Goto(c, "save_arg")
    /\ UNCHANGED <<storeVars, tuiVars, file, lock, req, loc, nread, nwritten,
                   saveFailed, spare, crashed, cli>>

\* DeleteContext: the range loop looking for the name; idx == -1 returns
\* ErrContextNotFound.
DelScan(c) ==
    /\ pc[c] = "del_scan" /\ ~crashed
    /\ LET i == IndexOf(svc.contexts, req[c].name)
       IN  IF i = 0
           THEN /\ Reply(c, Fail(ErrContextNotFound))
                /\ UNCHANGED loc
           ELSE /\ loc' = [loc EXCEPT ![c].i = i]
                /\ Goto(c, "del_cut")
    /\ UNCHANGED <<storeVars, tuiVars, file, lock, svc, req, nread, nwritten,
                   saveFailed, spare, crashed, cli>>

\* DeleteContext: c.Contexts = append(c.Contexts[:idx], c.Contexts[idx+1:]...);
\* c.Contexts[idx+1:] panics when idx+1 exceeds the slice's present length.
\* append moves the elements behind idx one place down inside the backing
\* array; the last place keeps its old element, now beyond the length.
DelCut(c) ==
    /\ pc[c] = "del_cut" /\ ~crashed
    /\ IF loc[c].i > Len(svc.contexts)
       THEN Panic
       ELSE /\ svc' = [svc EXCEPT !.contexts = RemoveAt(@, loc[c].i)]
            /\ spare' = <<svc.contexts[Len(svc.contexts)]>> \o spare
            /\ pc' = [pc EXCEPT ![c] = "del_cur"]
            /\ loc' = Noted(LocThrough(svc'.contexts \o spare'),
                          svc'.contexts)
            /\ resp' = RespThrough(svc'.contexts \o spare')
            /\ UNCHANGED <<storeVars, tuiVars, file, lock, req, nread,
                           nwritten, saveFailed, crashed, cli>>

\* DeleteContext: if c.CurrentContext == name { c.CurrentContext = "" }.
DelCur(c) ==
    /\ pc[c] = "del_cur" /\ ~crashed
    /\ svc' = [svc EXCEPT !.current = IF @ = req[c].name THEN "" ELSE @]
    /\ Goto(c, "save_arg")
    /\ UNCHANGED <<storeVars, tuiVars, file, lock, req, loc, nread, nwritten,
                   saveFailed, spare, crashed, cli>>

\* config.Save(s.cfgPath, s.cfg): the Config argument is copied at the
\* call; the copy's Contexts is a slice of the store's backing array.
SaveArg(c) ==
    /\ pc[c] = "save_arg" /\ ~crashed
    /\ loc' = [loc EXCEPT ![c].snap = svc, ![c].alias = TRUE]
    /\ Goto(c, "save_lock")
    /\ UNCHANGED <<storeVars, tuiVars, file, lock, svc, req, nread, nwritten,
                   saveFailed, spare, crashed, cli>>

-----------------------------------------------------------------------------
(* pkg/config Load and Save, statement by statement, for any process *)

\* Fault variant of CanLock: the lock excludes nobody.
CanLock_Always(holder) == TRUE

\* flock.Lock returns once no other open file description holds the lock.
CanLock(holder) == holder = NoHolder

\* Save or the command returns err to process p: a handler builds its
\* response from it, the CLI exits with it.
Return(p, err) ==
    IF p \in Conns
    THEN /\ Reply(p, IF err = Nil THEN Saved(req[p]) ELSE Fail(err))
         /\ UNCHANGED cli
    ELSE /\ pc' = [pc EXCEPT ![p] = "done"]
         /\ cli' = [cli EXCEPT ![p].err = err, ![p].cfg = DefaultConfig]
         /\ UNCHANGED resp

Alive(p) == p \in Conns => ~crashed

\* Save: lock.Lock() succeeds.
SaveLock(p) ==
    /\ pc[p] = "save_lock" /\ Alive(p)
    /\ CanLock(lock)
    /\ lock' = p
    /\ pc' = [pc EXCEPT ![p] = "save_io"]
    /\ UNCHANGED <<storeVars, tuiVars, file, svc, req, loc, resp, nread,
                   nwritten, saveFailed, spare, crashed, cli>>

\* Save: lock.Lock() fails; the error is returned at once.
SaveLockFail(p) ==
    /\ pc[p] = "save_lock" /\ Alive(p)
    /\ Return(p, ErrLock)
    /\ saveFailed' = TRUE
    /\ UNCHANGED <<storeVars, tuiVars, file, lock, svc, req, loc, nread,
                   nwritten, crashed, spare>>

\* Save: yaml.Marshal and os.WriteFile under the lock; the write may fail.
SaveIO(p) ==
    /\ pc[p] = "save_io" /\ Alive(p)
    /\ \E written \in BOOLEAN :
          /\ file' = IF written THEN loc[p].snap ELSE file
          /\ loc' = [loc EXCEPT ![p].wrote = written,
                                ![p].err = IF written THEN Nil ELSE ErrWrite]
          /\ saveFailed' = (saveFailed \/ ~written)
    /\ pc' = [pc EXCEPT ![p] = "save_unlock"]
    /\ UNCHANGED <<storeVars, tuiVars, lock, svc, req, resp, nread, nwritten,
                   spare,
                   crashed, cli>>

\* Save: the deferred lock.Unlock(), then the return.
SaveUnlock(p) ==
    /\ pc[p] = "save_unlock" /\ Alive(p)
    /\ lock' = NoHolder
    /\ Return(p, loc[p].err)
    /\ UNCHANGED <<storeVars, tuiVars, file, svc, req, loc, nread, nwritten,
                   saveFailed, spare, crashed>>

\* Load: lock.Lock() succeeds.
LoadLock(p) ==
    /\ pc[p] = "load_lock"
    /\ CanLock(lock)
    /\ lock' = p
    /\ pc' = [pc EXCEPT ![p] = "load_io"]
    /\ UNCHANGED <<storeVars, tuiVars, file, svc, req, loc, resp, nread,
                   nwritten, saveFailed, spare, crashed, cli>>

\* Load: lock.Lock() fails; Config{} and the error are returned.
LoadLockFail(p) ==
    /\ pc[p] = "load_lock"
    /\ Return(p, ErrLock)
    /\ UNCHANGED <<storeVars, tuiVars, file, lock, svc, req, loc, nread,
                   nwritten, saveFailed, spare, crashed>>

\* Load: os.ReadFile and yaml.Unmarshal under the lock.
LoadIO(p) ==
    /\ pc[p] = "load_io"
    /\ cli' = [cli EXCEPT ![p].cfg = file]
    /\ pc' = [pc EXCEPT ![p] = "load_unlock"]
    /\ UNCHANGED <<storeVars, tuiVars, file, lock, svc, req, loc, resp, nread,
                   nwritten, saveFailed, spare, crashed>>

-----------------------------------------------------------------------------
(* The CLI commands add, delete and use: Load, change the copy, Save *)

CliCommands ==
    {[cmd |-> "add", name |-> x.name, ctx |-> x] :
         x \in {CtxA, CtxB, CtxNoCompartment}}
    \cup {[cmd |-> k, name |-> n, ctx |-> ZeroContext] :
             k \in {"delete", "use"}, n \in DNames}

\* What a command does to the Config it loaded: the new value and the error.
CliApply(k, c) ==
    CASE k.cmd = "add" -> [cfg |-> UpsertContext(c, k.ctx), err |-> Nil]
      [] k.cmd = "delete" -> DeleteContext(c, k.name)
      [] OTHER ->
           IF GetContext(c, k.name).err # Nil
           THEN [cfg |-> c, err |-> GetContext(c, k.name).err]
           ELSE [cfg |-> [c EXCEPT !.current = k.name], err |-> Nil]

\* The command starts; add validates its flags before it loads.
CliStart(q, k) ==
    /\ pc[q] = "idle"
    /\ IF k.cmd = "add" /\ Validate(k.ctx) # Nil
       THEN /\ pc' = [pc EXCEPT ![q] = "done"]
            /\ cli' = [cli EXCEPT ![q] =
                          [cmd |-> k.cmd, name |-> k.name, ctx |-> k.ctx,
                           cfg |-> DefaultConfig, err |-> Validate(k.ctx)]]
       ELSE /\ pc' = [pc EXCEPT ![q] = "load_lock"]
            /\ cli' = [cli EXCEPT ![q] =
                          [cmd |-> k.cmd, name |-> k.name, ctx |-> k.ctx,
                           cfg |-> DefaultConfig, err |-> Nil]]
    /\ UNCHANGED <<storeVars, tuiVars, file, lock, svc, req, loc, resp, nread,
                   nwritten, saveFailed, spare, crashed>>

\* Load's deferred Unlock and return; the command changes its copy and calls
\* Save with it, or exits with the error.
CliLoaded(q) ==
    /\ pc[q] = "load_unlock"
    /\ lock' = NoHolder
    /\ LET r == CliApply(cli[q], cli[q].cfg)
       IN  IF r.err # Nil
           THEN /\ pc' = [pc EXCEPT ![q] = "done"]
                /\ cli' = [cli EXCEPT ![q].err = r.err,
                                      ![q].cfg = DefaultConfig]
                /\ UNCHANGED loc
           ELSE /\ pc' = [pc EXCEPT ![q] = "save_lock"]
                /\ cli' = [cli EXCEPT ![q].cfg = r.cfg]
                /\ loc' = [loc EXCEPT ![q].snap = r.cfg]
    /\ UNCHANGED <<storeVars, tuiVars, file, svc, req, resp, nread, nwritten,
                   saveFailed, spare, crashed>>

\* The connection served while a CLI command runs beside the daemon.
SharedConns == {"c1"}

\* The requests sent while a CLI command runs beside the daemon.
SharedLines ==
    {Request("get_current", "", "", FALSE, ZeroContext),
     Request("list", "", "", FALSE, ZeroContext),
     Request("use_context", "a", "", FALSE, ZeroContext),
     Request("delete_context", "b", "", FALSE, ZeroContext),
     Request("add_context", "", "", TRUE, CtxB2)}

\* One statement of one connection's goroutine; lines are the request lines
\* its client may send.
ConnStep(c, lines) ==
    \/ \E r \in lines : ReadLine(c, r)
    \/ ReadEOF(c)
    \/ GcChk(c)
    \/ GcGet(c)
    \/ List(c)
    \/ UcGet(c)
    \/ UcSet(c)
    \/ UpScan(c)
    \/ UpStore(c)
    \/ UpAppend(c)
    \/ UpCur(c)
    \/ DelScan(c)
    \/ DelCut(c)
    \/ DelCur(c)
    \/ SaveArg(c)
    \/ WriteResp(c)

\* One statement of config.Save in process p.
SaveStep(p) ==
    \/ SaveLock(p)
    \/ SaveLockFail(p)
    \/ SaveIO(p)
    \/ SaveUnlock(p)

\* One statement of the CLI process q.
CliStep(q) ==
    \/ \E k \in CliCommands : CliStart(q, k)
    \/ LoadLock(q)
    \/ LoadLockFail(q)
    \/ LoadIO(q)
    \/ CliLoaded(q)

NextDaemon ==
    \E c \in Conns : ConnStep(c, RequestLines) \/ SaveStep(c)

NextShared ==
    \/ \E c \in SharedConns : ConnStep(c, SharedLines) \/ SaveStep(c)
    \/ CliStep(CliProc)
    \/ SaveStep(CliProc)

\* Two CLI commands running at the same time on one config path.
NextCli ==
    \E q \in CliProcs : CliStep(q) \/ SaveStep(q)

-----------------------------------------------------------------------------
(* internal/cmd tui: the interactive picker *)

\* The modes of the picker, one list each.
Modes == {"contexts", "tenancies", "compartments", "regions"}

\* The profiles the OCI CLI config file may define, in sort.Strings order.
ProfileOrder == <<"DEFAULT", "DEV", "PROD", "QA">>

\* ocicfg.Profile of a profile name: DEFAULT and DEV are of tenancy t1.
Profile(name) ==
    CASE name = "DEFAULT" -> [tenancy |-> "t1", region |-> "r1"]
      [] name = "DEV" -> [tenancy |-> "t1", region |-> "r2"]
      [] name = "STAGE" -> [tenancy |-> "t3", region |-> "r1"]
      [] name = "TEST" -> [tenancy |-> "t4", region |-> "r1"]
      [] name = "LAB" ->
            [tenancy |-> "ocid1.tenancy.oc1..aaaaaaaalab", region |-> "r2"]
      [] OTHER -> [tenancy |-> "t2", region |-> "r1"]

\* What LoadProfiles may return: nothing (no file, or a parse error) or
\* both profiles.
ProfileSets == { {}, {"DEFAULT", "DEV"} }

\* cfg.Options.DefaultProfile as found in the config file.
DefaultProfiles == {"", "DEV"}

\* The tenancy OCIDs in sort.Strings order.
TenancyOrder == <<"t1", "t2">>

\* sort.Strings of a set of strings drawn from the sequence order.
SortStrings(S, order) == SelectSeq(order, LAMBDA x : x \in S)

\* contextItemForProfile: the compartment starts at the tenancy root.
contextItemForProfile(name) ==
    Ctx(name, name, Profile(name).tenancy, Profile(name).tenancy,
        Profile(name).region)

\* contextsFromProfiles: one item per profile, sorted by name.
contextsFromProfiles(profiles) ==
    LET names == SortStrings(profiles, ProfileOrder)
    IN  [i \in 1..Len(names) |-> contextItemForProfile(names[i])]

\* tenanciesFromProfiles: one item per tenancy OCID, sorted, each with its
\* profiles sorted by name.
tenanciesFromProfiles(profiles) ==
    LET ocids == SortStrings({Profile(p).tenancy : p \in profiles},
                             TenancyOrder)
    IN  [i \in 1..Len(ocids) |->
            [tenancy |-> ocids[i],
             profiles |-> SortStrings({p \in profiles :
                                          Profile(p).tenancy = ocids[i]},
                                      ProfileOrder)]]

\* Fault variant of selectProfileForTenancy: the default profile is taken
\* whatever its tenancy.
selectProfileForTenancy_AnyTenancy(item, profiles, defaultProfile) ==
    IF defaultProfile # "" /\ defaultProfile \in profiles
    THEN defaultProfile
    ELSE IF Len(item.profiles) > 0 THEN item.profiles[1] ELSE ""

\* selectProfileForTenancy: the default profile if it is of this tenancy,
\* else the tenancy's first profile, else "".
selectProfileForTenancy(item, profiles, defaultProfile) ==
    IF /\ defaultProfile # ""
       /\ defaultProfile \in profiles
       /\ Profile(defaultProfile).tenancy = item.tenancy
    THEN defaultProfile
    ELSE IF Len(item.profiles) > 0 THEN item.profiles[1] ELSE ""

\* oci.Compartment
Comp(id, name, parent) == [id |-> id, name |-> name, parent |-> parent]

\* The compartment tree of the cloud account: direct children of a parent.
Children(parent) ==
    CASE parent = "t1" -> <<Comp("c1", "dev", "t1"), Comp("c2", "ops", "t1")>>
      [] parent = "c1" -> <<Comp("c3", "web", "c1")>>
      [] OTHER -> <<>>

\* The regions a tenancy is subscribed to.
Subscribed == <<"r1", "r2">>

\* fallbackRegions, the static list shown when the fetch fails or is empty
\* (shortened to two entries, one of them not subscribed).
fallbackRegions == <<"r1", "r3">>

ErrFetch == "list compartments: service error"

ErrRegions == "list region subscriptions: service error"

\* A Go map: a function on the keys present; a missing key reads as "".
EmptyMap == [k \in {} |-> ""]

MapHas(f, k) == k \in DOMAIN f

MapGet(f, k) == IF k \in DOMAIN f THEN f[k] ELSE ""

MapPut(f, k, v) == [x \in DOMAIN f \cup {k} |-> IF x = k THEN v ELSE f[x]]

\* list.Model as far as the picker uses it: the items, the cursor (from 0)
\* and whether the filter prompt is open.
ListModel(items) == [items |-> items, cursor |-> 0, filtering |-> FALSE]

\* l.SelectedItem() is not nil.
HasSelected(l) == l.cursor < Len(l.items)

\* l.SelectedItem()
Selected(l) == l.items[l.cursor + 1]

\* l.SetItems(items): the cursor stays where it is.
SetItems(l, items) == [l EXCEPT !.items = items]

\* l.Select(i)
Select(l, i) == [l EXCEPT !.cursor = i]

\* The index (from 0) of the first item named name, or -1.
IndexOfItem(items, name) ==
    IF \E i \in 1..Len(items) : items[i].name = name
    THEN (CHOOSE i \in 1..Len(items) :
             /\ items[i].name = name
             /\ \A j \in 1..(i - 1) : items[j].name # name) - 1
    ELSE -1

\* The item lists a filter can leave visible: all of them (empty filter
\* text), one of them (its full name typed) or none.
VisibleItems(items) ==
    {items, <<>>} \cup {<<items[i]>> : i \in 1..Len(items)}

\* selectInitialContext: the current context's item, else the first item.
selectInitialContext(items, current) ==
    IF current # "" /\ IndexOfItem(items, current) >= 0
    THEN [ctx |-> items[IndexOfItem(items, current) + 1], ok |-> TRUE]
    ELSE IF Len(items) > 0
    THEN [ctx |-> items[1], ok |-> TRUE]
    ELSE [ctx |-> ZeroContext, ok |-> FALSE]

\* tea.Cmd values in flight: a command not yet run (done = FALSE) or the
\* message it produced (done = TRUE).  ctx is the context item the closure
\* captured when the command was built.
Cmd(kind, parent, ctx) ==
    [kind |-> kind, parent |-> parent, ctx |-> ctx,
     done |-> FALSE, items |-> <<>>, err |-> Nil]

\* m.loadCompsCmd(parent), built from model mm.
loadCompsCmd(mm, parent) == Cmd("comps", parent, mm.ctxItem)

\* m.loadRegionsCmd(ctxItem)
loadRegionsCmd(ctxItem) == Cmd("regions", "", ctxItem)

\* Everything the picker's steps leave alone.
tuiFrame ==
    <<cfg, ret, latest,
      lock, svc, pc, req, loc, resp, nread, nwritten, saveFailed, spare,
      crashed, cli,
      primeVars>>

\* How many commands and undelivered messages may be in flight at once.
MaxInflight == 2

\* How many messages (keys and command results) one run of the picker
\* handles at most.
MaxUpdates == 5

\* newTuiModel before applyStartMode.  The display-only fields (status,
\* crumb, parentCrumb, nameMap, pendingSelectionNm, ultraCompact, sizes) are
\* left out.
newTuiModel(config, items, profiles, defaultProfile) ==
    [ lists |->
        [md \in Modes |->
            CASE md = "contexts" ->
                    IF /\ config.current # ""
                       /\ IndexOfItem(items, config.current) >= 0
                    THEN Select(ListModel(items),
                                IndexOfItem(items, config.current))
                    ELSE ListModel(items)
              [] md = "tenancies" ->
                    ListModel(tenanciesFromProfiles(profiles))
              [] OTHER -> ListModel(<<>>)],
      cfg |-> config,
      selected |-> "",
      profiles |-> profiles,
      defaultProfile |-> defaultProfile,
      err |-> Nil,
      mode |-> "contexts",
      ctxItem |-> ZeroContext,
      compCache |-> EmptyMap,
      parentID |-> "",
      parentMap |-> EmptyMap,
      finalized |-> FALSE,
      regionSet |-> FALSE,
      regionCache |-> EmptyMap,
      pendingSelectionID |-> "",
      pendingRegion |-> "",
      pendingContextName |-> "",
      pendingTenancyOCID |-> "" ]

\* The start compartment of a context item: its compartment, else its
\* tenancy.
StartParent(item) ==
    IF item.compartment = "" THEN item.tenancy ELSE item.compartment

\* Opening the compartments of item from the top: a fresh parentMap, the
\* start parent recorded under the tenancy, mode "compartments".
OpenCompartments(mm, item) ==
    [mm EXCEPT !.ctxItem = item,
               !.parentMap = MapPut(EmptyMap, StartParent(item), item.tenancy),
               !.parentID = StartParent(item),
               !.mode = "compartments"]

\* The start modes `tui [mode]` accepts (their aliases behave alike).
StartModes == {"", "regions", "compartments", "tenancies"}

\* applyStartMode: the model and the startup command, if any.
applyStartMode(mm, startMode) ==
    LET init == selectInitialContext(mm.lists["contexts"].items,
                                     mm.cfg.current)
    IN  CASE startMode = "regions" /\ init.ok ->
                [m |-> [mm EXCEPT !.ctxItem = init.ctx, !.mode = "regions"],
                 cmds |-> {loadRegionsCmd(init.ctx)}]
          [] startMode = "compartments" /\ init.ok ->
                [m |-> [OpenCompartments(mm, init.ctx) EXCEPT
                            !.parentMap = MapPut(mm.parentMap,
                                                 StartParent(init.ctx),
                                                 init.ctx.tenancy)],
                 cmds |-> {Cmd("comps", StartParent(init.ctx), init.ctx)}]
          [] /\ startMode = "tenancies"
             /\ Len(mm.lists["tenancies"].items) > 0 ->
                [m |-> [mm EXCEPT !.mode = "tenancies"], cmds |-> {}]
          [] OTHER -> [m |-> mm, cmds |-> {}]

\* No picker is running.
TuiAtRest ==
    /\ m = newTuiModel(DefaultConfig, <<>>, {}, "")
    /\ cmds = EmptyBag
    /\ prog = "off"
    /\ nupd = 0
    /\ nsave = 0

\* `oci-context tui [mode]`: Load the config, read the profiles, build the
\* items (from the profiles, else from the stored contexts) and the model.
TuiStart(profiles, defaultProfile, startMode) ==
    /\ prog = "off"
    /\ CanLock(lock)
    /\ LET items == IF contextsFromProfiles(profiles) = <<>>
                    THEN file.contexts
                    ELSE contextsFromProfiles(profiles)
           r == applyStartMode(
                    newTuiModel(file, items, profiles, defaultProfile),
                    startMode)
       IN  /\ m' = r.m
           /\ cmds' = SetToBag(r.cmds)
    /\ prog' = "running"
    /\ UNCHANGED <<nupd, nsave, file, tuiFrame>>

\* Update returns (m, nil): the message msg (if one was delivered) is gone.
TuiStay(mm, msg) ==
    /\ nupd < MaxUpdates
    /\ nupd' = nupd + 1
    /\ m' = mm
    /\ cmds' = cmds (-) SetToBag(msg)
    /\ UNCHANGED <<prog, nsave, file, tuiFrame>>

\* Update returns (m, cmd).
TuiSpawn(mm, c) ==
    /\ BagCardinality(cmds) < MaxInflight
    /\ nupd < MaxUpdates
    /\ nupd' = nupd + 1
    /\ m' = mm
    /\ cmds' = cmds (+) SetToBag({c})
    /\ UNCHANGED <<prog, nsave, file, tuiFrame>>

\* Fault variant of TuiQuit: the program also marks the selection final.
TuiQuit_Finalized(mm) ==
    /\ nupd < MaxUpdates
    /\ nupd' = nupd + 1
    /\ m' = [mm EXCEPT !.finalized = TRUE, !.selected = mm.ctxItem.name]
    /\ cmds' = EmptyBag
    /\ prog' = "quit"
    /\ UNCHANGED <<nsave, file, tuiFrame>>

\* Update returns (m, tea.Quit): the program ends, what is in flight is
\* never delivered.
TuiQuit(mm) ==
    /\ nupd < MaxUpdates
    /\ nupd' = nupd + 1
    /\ m' = mm
    /\ cmds' = EmptyBag
    /\ prog' = "quit"
    /\ UNCHANGED <<nsave, file, tuiFrame>>

\* Fault variant of finalizeSelection: the context item is saved with the
\* compartment it had, not with the current parent.
finalizeSelection_KeepCompartment(mm) ==
    LET item == mm.ctxItem
        saved == UpsertContext([mm.cfg EXCEPT !.current = item.name], item)
    IN  \E err \in {Nil, ErrLock, ErrWrite} :
            /\ nupd < MaxUpdates
            /\ nupd' = nupd + 1
            /\ m' = [mm EXCEPT !.finalized = TRUE,
                               !.selected = item.name,
                               !.ctxItem = item,
                               !.cfg = saved,
                               !.err = err]
            /\ nsave' = nsave + 1
            /\ file' = IF err = Nil THEN saved ELSE file
            /\ cmds' = EmptyBag
            /\ prog' = "quit"
            /\ UNCHANGED tuiFrame

\* Fault variant of finalizeSelection: the context item is upserted and
\* saved but not made current.
finalizeSelection_KeepCurrent(mm) ==
    LET item == [mm.ctxItem EXCEPT !.compartment = mm.parentID]
        saved == UpsertContext(mm.cfg, item)
    IN  \E err \in {Nil, ErrLock, ErrWrite} :
            /\ nupd < MaxUpdates
            /\ nupd' = nupd + 1
            /\ m' = [mm EXCEPT !.finalized = TRUE,
                               !.selected = item.name,
                               !.ctxItem = item,
                               !.cfg = saved,
                               !.err = err]
            /\ nsave' = nsave + 1
            /\ file' = IF err = Nil THEN saved ELSE file
            /\ cmds' = EmptyBag
            /\ prog' = "quit"
            /\ UNCHANGED tuiFrame

\* finalizeSelection: the context item with the chosen compartment becomes
\* current and is upserted, the Config is saved, the program quits.  Save
\* may fail at the lock or at the write.
finalizeSelection(mm) ==
    LET item == [mm.ctxItem EXCEPT !.compartment = mm.parentID]
        saved == UpsertContext([mm.cfg EXCEPT !.current = item.name], item)
    IN  \E err \in {Nil, ErrLock, ErrWrite} :
            /\ nupd < MaxUpdates
            /\ nupd' = nupd + 1
            /\ m' = [mm EXCEPT !.finalized = TRUE,
                               !.selected = item.name,
                               !.ctxItem = item,
                               !.cfg = saved,
                               !.err = err]
            /\ nsave' = nsave + 1
            /\ file' = IF err = Nil THEN saved ELSE file
            /\ cmds' = EmptyBag
            /\ prog' = "quit"
            /\ UNCHANGED tuiFrame

\* Fault variant of Hotkeys: the picker's key switch is reached whether or
\* not the filter prompt is open.
Hotkeys_IgnoreFilter == prog = "running"

\* The picker is running and the active list's filter prompt is closed: a
\* key reaches the picker's own switch.
Hotkeys == prog = "running" /\ ~m.lists[m.mode].filtering

\* The active list.
Active == m.lists[m.mode]

\* Model mm with the list of mode md replaced by l.
WithList(mm, md, l) == [mm EXCEPT !.lists[md] = l]

\* The profile the picker uses for a tenancy item.
ProfileFor(item) == selectProfileForTenancy(item, m.profiles, m.defaultProfile)

\* Fault variant of KeyEnter: enter on a region commits the context with
\* that region, as q does in the region list.
KeyEnter_RegionCommits ==
    /\ prog = "running"
    /\ IF Active.filtering
       THEN \E vis \in VisibleItems(Active.items) :
                TuiStay(WithList(m, m.mode,
                            [items |-> vis,
                             cursor |-> IF Len(vis) > 0 THEN 0
                                        ELSE Active.cursor,
                             filtering |-> FALSE]), {})
       ELSE CASE m.mode = "contexts" /\ HasSelected(Active) ->
                    LET item == Selected(Active)
                        mm == [OpenCompartments(m, item) EXCEPT
                                  !.pendingSelectionID = "",
                                  !.pendingRegion = ""]
                    IN  TuiSpawn(mm, loadCompsCmd(mm, StartParent(item)))
              [] /\ m.mode = "tenancies" /\ HasSelected(Active)
                 /\ ProfileFor(Selected(Active)) \in m.profiles ->
                    LET item == Selected(Active)
                        name == ProfileFor(item)
                        i == IndexOfItem(m.lists["contexts"].items, name)
                        mm == [m EXCEPT
                                  !.ctxItem = contextItemForProfile(name),
                                  !.pendingSelectionID = "",
                                  !.pendingRegion = "",
                                  !.lists["contexts"] =
                                      IF i >= 0 THEN Select(@, i) ELSE @,
                                  !.parentMap = MapPut(EmptyMap, item.tenancy,
                                                       item.tenancy),
                                  !.parentID = item.tenancy,
                                  !.mode = "compartments"]
                    IN  TuiSpawn(mm, loadCompsCmd(mm, item.tenancy))
              [] m.mode = "compartments" /\ Len(Active.items) = 0 ->
                    finalizeSelection(m)
              [] m.mode = "compartments" /\ HasSelected(Active) ->
                    LET item == Selected(Active)
                        mm == [m EXCEPT
                                  !.parentID = item.id,
                                  !.parentMap = MapPut(@, item.id, item.parent),
                                  !.pendingSelectionID = ""]
                    IN  TuiSpawn(mm, loadCompsCmd(mm, item.id))
              [] m.mode = "regions" /\ HasSelected(Active) ->
                    finalizeSelection(
                        [m EXCEPT !.ctxItem.region = Selected(Active),
                                  !.regionSet = TRUE,
                                  !.parentID = IF m.parentID = ""
                                               THEN StartParent(m.ctxItem)
                                               ELSE m.parentID])
              [] OTHER -> TuiStay(m, {})

\* enter, right: with the filter prompt open, keep the visible items and
\* close the prompt; else drill down (contexts, tenancies, compartments),
\* commit at a leaf (compartments with no items) or take the region.
KeyEnter ==
    /\ prog = "running"
    /\ IF Active.filtering
       THEN \E vis \in VisibleItems(Active.items) :
                TuiStay(WithList(m, m.mode,
                            [items |-> vis,
                             cursor |-> IF Len(vis) > 0 THEN 0
                                        ELSE Active.cursor,
                             filtering |-> FALSE]), {})
       ELSE CASE m.mode = "contexts" /\ HasSelected(Active) ->
                    LET item == Selected(Active)
                        mm == [OpenCompartments(m, item) EXCEPT
                                  !.pendingSelectionID = "",
                                  !.pendingRegion = ""]
                    IN  TuiSpawn(mm, loadCompsCmd(mm, StartParent(item)))
              [] /\ m.mode = "tenancies" /\ HasSelected(Active)
                 /\ ProfileFor(Selected(Active)) \in m.profiles ->
                    LET item == Selected(Active)
                        name == ProfileFor(item)
                        i == IndexOfItem(m.lists["contexts"].items, name)
                        mm == [m EXCEPT
                                  !.ctxItem = contextItemForProfile(name),
                                  !.pendingSelectionID = "",
                                  !.pendingRegion = "",
                                  !.lists["contexts"] =
                                      IF i >= 0 THEN Select(@, i) ELSE @,
                                  !.parentMap = MapPut(EmptyMap, item.tenancy,
                                                       item.tenancy),
                                  !.parentID = item.tenancy,
                                  !.mode = "compartments"]
                    IN  TuiSpawn(mm, loadCompsCmd(mm, item.tenancy))
              [] m.mode = "compartments" /\ Len(Active.items) = 0 ->
                    finalizeSelection(m)
              [] m.mode = "compartments" /\ HasSelected(Active) ->
                    LET item == Selected(Active)
                        mm == [m EXCEPT
                                  !.parentID = item.id,
                                  !.parentMap = MapPut(@, item.id, item.parent),
                                  !.pendingSelectionID = ""]
                    IN  TuiSpawn(mm, loadCompsCmd(mm, item.id))
              [] m.mode = "regions" /\ HasSelected(Active) ->
                    TuiStay([m EXCEPT !.ctxItem.region = Selected(Active),
                                      !.regionSet = TRUE,
                                      !.mode = "contexts"], {})
              [] OTHER -> TuiStay(m, {})

\* Fault variant of KeySpace: staging a context leaves the compartment,
\* region and tenancy stagings in place.
KeySpace_ContextKeepsOthers ==
    /\ Hotkeys
    /\ IF ~HasSelected(Active) THEN TuiStay(m, {})
       ELSE LET item == Selected(Active)
            IN  CASE m.mode = "contexts" ->
                        TuiStay([m EXCEPT !.ctxItem = item,
                                          !.pendingContextName = item.name,
                                          !.parentID = StartParent(item)], {})
                  [] m.mode = "tenancies" ->
                        IF ProfileFor(item) \in m.profiles
                        THEN TuiStay([m EXCEPT
                                  !.pendingTenancyOCID = item.tenancy,
                                  !.ctxItem =
                                      contextItemForProfile(ProfileFor(item)),
                                  !.pendingContextName = ProfileFor(item),
                                  !.pendingSelectionID = "",
                                  !.pendingRegion = "",
                                  !.parentID = item.tenancy], {})
                        ELSE TuiStay([m EXCEPT
                                  !.pendingTenancyOCID = item.tenancy], {})
                  [] m.mode = "compartments" ->
                        TuiStay([m EXCEPT
                                  !.parentID = item.id,
                                  !.parentMap = MapPut(@, item.id, item.parent),
                                  !.pendingSelectionID = item.id], {})
                  [] OTHER ->
                        TuiStay([m EXCEPT !.ctxItem.region = item,
                                          !.regionSet = TRUE,
                                          !.pendingRegion = item], {})

\* Fault variant of KeySpace: space on a compartment drills into it as enter
\* does, fetching its children.
KeySpace_CompartmentDrills ==
    /\ Hotkeys
    /\ IF ~HasSelected(Active) THEN TuiStay(m, {})
       ELSE LET item == Selected(Active)
            IN  CASE m.mode = "contexts" ->
                        TuiStay([m EXCEPT !.ctxItem = item,
                                          !.pendingContextName = item.name,
                                          !.pendingSelectionID = "",
                                          !.pendingRegion = "",
                                          !.pendingTenancyOCID = "",
                                          !.parentID = StartParent(item)], {})
                  [] m.mode = "tenancies" ->
                        IF ProfileFor(item) \in m.profiles
                        THEN TuiStay([m EXCEPT
                                  !.pendingTenancyOCID = item.tenancy,
                                  !.ctxItem =
                                      contextItemForProfile(ProfileFor(item)),
                                  !.pendingContextName = ProfileFor(item),
                                  !.pendingSelectionID = "",
                                  !.pendingRegion = "",
                                  !.parentID = item.tenancy], {})
                        ELSE TuiStay([m EXCEPT
                                  !.pendingTenancyOCID = item.tenancy], {})
                  [] m.mode = "compartments" ->
                        LET mm == [m EXCEPT
                                  !.parentID = item.id,
                                  !.parentMap = MapPut(@, item.id, item.parent),
                                  !.pendingSelectionID = item.id]
                        IN  TuiSpawn(mm, loadCompsCmd(mm, item.id))
                  [] OTHER ->
                        TuiStay([m EXCEPT !.ctxItem.region = item,
                                          !.regionSet = TRUE,
                                          !.pendingRegion = item], {})

\* space: stage the highlighted item of the active list.
KeySpace ==
    /\ Hotkeys
    /\ IF ~HasSelected(Active) THEN TuiStay(m, {})
       ELSE LET item == Selected(Active)
            IN  CASE m.mode = "contexts" ->
                        TuiStay([m EXCEPT !.ctxItem = item,
                                          !.pendingContextName = item.name,
                                          !.pendingSelectionID = "",
                                          !.pendingRegion = "",
                                          !.pendingTenancyOCID = "",
                                          !.parentID = StartParent(item)], {})
                  [] m.mode = "tenancies" ->
                        IF ProfileFor(item) \in m.profiles
                        THEN TuiStay([m EXCEPT
                                  !.pendingTenancyOCID = item.tenancy,
                                  !.ctxItem =
                                      contextItemForProfile(ProfileFor(item)),
                                  !.pendingContextName = ProfileFor(item),
                                  !.pendingSelectionID = "",
                                  !.pendingRegion = "",
                                  !.parentID = item.tenancy], {})
                        ELSE TuiStay([m EXCEPT
                                  !.pendingTenancyOCID = item.tenancy], {})
                  [] m.mode = "compartments" ->
                        TuiStay([m EXCEPT
                                  !.parentID = item.id,
                                  !.parentMap = MapPut(@, item.id, item.parent),
                                  !.pendingSelectionID = item.id], {})
                  [] OTHER ->
                        TuiStay([m EXCEPT !.ctxItem.region = item,
                                          !.regionSet = TRUE,
                                          !.pendingRegion = item], {})

\* Fault variant of KeySave: a commit from the contexts list always starts
\* from the row's own compartment.
KeySave_IgnoresStaged ==
    /\ Hotkeys
    /\ CASE m.mode = "contexts" /\ HasSelected(Active) ->
                LET item == Selected(Active)
                IN  finalizeSelection([m EXCEPT !.ctxItem = item,
                                                !.parentID = StartParent(item)])
          [] /\ m.mode = "tenancies" /\ HasSelected(Active)
             /\ ProfileFor(Selected(Active)) \in m.profiles ->
                LET item == Selected(Active)
                IN  finalizeSelection(
                        [m EXCEPT
                            !.ctxItem = contextItemForProfile(ProfileFor(item)),
                            !.parentID = item.tenancy])
          [] m.mode = "compartments" -> finalizeSelection(m)
          [] m.mode = "regions" /\ HasSelected(Active) ->
                LET item == [m.ctxItem EXCEPT !.region = Selected(Active)]
                IN  finalizeSelection(
                        [m EXCEPT
                            !.ctxItem = item,
                            !.regionSet = TRUE,
                            !.parentID = IF m.parentID = ""
                                         THEN StartParent(item)
                                         ELSE m.parentID])
          [] OTHER -> TuiStay(m, {})

\* ctrl+s, q: saveAndQuitCurrentMode.
KeySave ==
    /\ Hotkeys
    /\ CASE m.mode = "contexts" /\ HasSelected(Active) ->
                LET item == Selected(Active)
                    parent == IF /\ m.pendingSelectionID # ""
                                 /\ m.parentID # ""
                                 /\ m.ctxItem.name = item.name
                              THEN m.parentID
                              ELSE StartParent(item)
                IN  finalizeSelection([m EXCEPT !.ctxItem = item,
                                                !.parentID = parent])
          [] /\ m.mode = "tenancies" /\ HasSelected(Active)
             /\ ProfileFor(Selected(Active)) \in m.profiles ->
                LET item == Selected(Active)
                IN  finalizeSelection(
                        [m EXCEPT
                            !.ctxItem = contextItemForProfile(ProfileFor(item)),
                            !.parentID = item.tenancy])
          [] m.mode = "compartments" -> finalizeSelection(m)
          [] m.mode = "regions" /\ HasSelected(Active) ->
                LET item == [m.ctxItem EXCEPT !.region = Selected(Active)]
                IN  finalizeSelection(
                        [m EXCEPT
                            !.ctxItem = item,
                            !.regionSet = TRUE,
                            !.parentID = IF m.parentID = ""
                                         THEN StartParent(item)
                                         ELSE m.parentID])
          [] OTHER -> TuiStay(m, {})

\* esc outside the filter prompt, ctrl+c anywhere: quit without saving.
KeyQuit ==
    /\ prog = "running"
    /\ TuiQuit(m)

\* esc in the filter prompt goes to the list, which closes the prompt.
KeyFilterCancel ==
    /\ prog = "running"
    /\ Active.filtering
    /\ TuiStay(WithList(m, m.mode, [Active EXCEPT !.filtering = FALSE]), {})

\* Any other key but enter while the filter prompt is open (letters, space,
\* q, ctrl+s, backspace, "/"): Update hands it to the active list, which
\* edits its filter text.  The text itself is not kept: what it leaves
\* visible is chosen when enter closes the prompt.
KeyFilterInput ==
    /\ prog = "running"
    /\ Active.filtering
    /\ TuiStay(m, {})

\* Fault variant of goUpOne: the tenancy root is reloaded like any other
\* level instead of returning to the contexts.
goUpOne_RootReloads ==
    LET parent == IF MapGet(m.parentMap, m.parentID) = ""
                  THEN m.ctxItem.tenancy
                  ELSE MapGet(m.parentMap, m.parentID)
        mm == [m EXCEPT !.parentID = parent]
    IN  TuiSpawn(mm, loadCompsCmd(mm, parent))

\* Fault variant of goUpOne: below the root the current level is reloaded
\* instead of its parent.
goUpOne_ReloadsCurrent ==
    IF m.parentID = m.ctxItem.tenancy
    THEN TuiStay([m EXCEPT !.mode = "contexts"], {})
    ELSE TuiSpawn(m, loadCompsCmd(m, m.parentID))

\* goUpOne: from the tenancy root back to the contexts, else reload the
\* recorded parent (the tenancy when none is recorded).
goUpOne ==
    IF m.parentID = m.ctxItem.tenancy
    THEN TuiStay([m EXCEPT !.mode = "contexts"], {})
    ELSE LET parent == IF MapGet(m.parentMap, m.parentID) = ""
                       THEN m.ctxItem.tenancy
                       ELSE MapGet(m.parentMap, m.parentID)
             mm == [m EXCEPT !.parentID = parent]
         IN  TuiSpawn(mm, loadCompsCmd(mm, parent))

\* delete, backspace: one level up.
KeyBack ==
    /\ Hotkeys
    /\ CASE m.mode = "compartments" -> goUpOne
          [] m.mode = "tenancies" ->
                TuiStay([m EXCEPT !.mode = "contexts",
                                  !.pendingSelectionID = ""], {})
          [] m.mode = "regions" -> TuiStay([m EXCEPT !.mode = "contexts"], {})
          [] OTHER -> TuiStay(m, {})

\* Entering the region list for the context item of mm: from the cache if
\* this context's regions were fetched before, else by a fetch.
OpenRegions(mm) ==
    IF MapHas(mm.regionCache, mm.ctxItem.name)
    THEN TuiStay(WithList([mm EXCEPT !.mode = "regions"], "regions",
                     Select(SetItems(mm.lists["regions"],
                                     mm.regionCache[mm.ctxItem.name]), 0)),
                 {})
    ELSE TuiSpawn([mm EXCEPT !.mode = "regions"], loadRegionsCmd(mm.ctxItem))

\* r: regions of the highlighted context, from the contexts list only.
Key_r ==
    /\ Hotkeys
    /\ IF m.mode = "contexts" /\ HasSelected(Active)
       THEN OpenRegions([m EXCEPT !.ctxItem = Selected(Active)])
       ELSE TuiStay(m, {})

\* R: regions of the current context item, from any submenu.
Key_R ==
    /\ Hotkeys
    /\ IF m.mode # "contexts" THEN OpenRegions(m) ELSE TuiStay(m, {})

\* c: compartments of the highlighted context, from the contexts list only.
Key_c ==
    /\ Hotkeys
    /\ IF m.mode = "contexts" /\ HasSelected(Active)
       THEN LET mm == OpenCompartments(m, Selected(Active))
            IN  TuiSpawn(mm, loadCompsCmd(mm, mm.parentID))
       ELSE TuiStay(m, {})

\* C: compartments of the current context item, from any submenu; with no
\* context item yet, of the initial context if there is one.
Key_C ==
    /\ Hotkeys
    /\ IF m.mode # "contexts"
       THEN LET init == selectInitialContext(m.lists["contexts"].items,
                                             m.cfg.current)
                item == IF m.ctxItem = ZeroContext /\ init.ok
                        THEN init.ctx ELSE m.ctxItem
                mm == OpenCompartments(m, item)
            IN  TuiSpawn(mm, loadCompsCmd(mm, mm.parentID))
       ELSE TuiStay(m, {})

\* Fault variant of OpenTenancies: entering the tenancy list drops the
\* staged compartment, as leaving it by backspace does.
OpenTenancies_Unstage ==
    IF Len(m.lists["tenancies"].items) = 0
    THEN TuiStay(m, {})
    ELSE TuiStay([m EXCEPT !.mode = "tenancies",
                           !.pendingSelectionID = ""], {})

\* The tenancy list, if there are tenancies.
OpenTenancies ==
    IF Len(m.lists["tenancies"].items) = 0
    THEN TuiStay(m, {})
    ELSE TuiStay([m EXCEPT !.mode = "tenancies"], {})

\* t: tenancies, from the contexts list only.
Key_t ==
    /\ Hotkeys
    /\ IF m.mode = "contexts" THEN OpenTenancies ELSE TuiStay(m, {})

\* T: tenancies, from any submenu.
Key_T ==
    /\ Hotkeys
    /\ IF m.mode # "contexts" THEN OpenTenancies ELSE TuiStay(m, {})

\* P: back to the contexts list from any submenu.
Key_P ==
    /\ Hotkeys
    /\ IF m.mode # "contexts"
       THEN TuiStay([m EXCEPT !.mode = "contexts"], {})
       ELSE TuiStay(m, {})

\* "/": open the filter prompt of the active list.
KeySlash ==
    /\ Hotkeys
    /\ TuiStay(WithList(m, m.mode, [Active EXCEPT !.filtering = TRUE]), {})

\* up: the active list moves its cursor one item up.
CursorUp ==
    /\ Hotkeys
    /\ TuiStay(WithList(m, m.mode,
                   Select(Active, IF Active.cursor > 0
                                  THEN Active.cursor - 1 ELSE 0)), {})

\* down: the active list moves its cursor one item down, stops at the last
\* item, and returns to the first when it was beyond the items.
CursorDown ==
    /\ Hotkeys
    /\ TuiStay(WithList(m, m.mode,
                   Select(Active,
                       IF Active.cursor + 1 < Len(Active.items)
                       THEN Active.cursor + 1
                       ELSE IF Active.cursor + 1 > Len(Active.items)
                       THEN 0
                       ELSE Active.cursor)), {})

\* The SDK can build a client for this profile name: the OCI config defines
\* it, or the name is empty and the SDK may fall back to a default profile.
Usable(profile) ==
    profile \in m.profiles \/ (profile = "" /\ m.profiles # {})

\* oci.FetchCompartments as fetchChildren sees it: the outcomes a call for
\* the children of parent under a profile can have.  It fails for a profile
\* the SDK cannot use and for an empty parent, and may fail for any call.
fetchChildren(profile, parent) ==
    {[items |-> <<>>, err |-> ErrFetch]} \cup
    (IF Usable(profile) /\ parent # ""
     THEN {[items |-> Children(parent), err |-> Nil]}
     ELSE {})

\* oci.ListRegionSubscriptions: the outcomes of a call under a profile; a
\* successful call may also return no region.
ListRegionSubscriptions(profile) ==
    {[items |-> <<>>, err |-> ErrRegions]} \cup
    (IF Usable(profile)
     THEN {[items |-> Subscribed, err |-> Nil], [items |-> <<>>, err |-> Nil]}
     ELSE {})

\* A command runs in its goroutine and produces its message.  loadCompsCmd
\* answers from compCache when the parent is cached at that moment, else
\* it fetches.
RunCmd(c) ==
    /\ prog = "running"
    /\ BagIn(c, cmds)
    /\ ~c.done
    /\ \E out \in (IF c.kind = "regions"
                   THEN ListRegionSubscriptions(c.ctx.profile)
                   ELSE IF MapHas(m.compCache, c.parent)
                   THEN {[items |-> m.compCache[c.parent], err |-> Nil]}
                   ELSE fetchChildren(c.ctx.profile, c.parent)) :
          cmds' = (cmds (-) SetToBag({c})) (+)
                  SetToBag({[c EXCEPT !.done = TRUE,
                                      !.items = out.items,
                                      !.err = out.err]})
    /\ UNCHANGED <<m, prog, nupd, nsave, file, tuiFrame>>

\* parentMap with the parent of every fetched item recorded.
RecordParents(parentMap, items) ==
    [x \in DOMAIN parentMap \cup {items[i].id : i \in 1..Len(items)} |->
        IF \E i \in 1..Len(items) : items[i].id = x
        THEN (CHOOSE it \in {items[i] : i \in 1..Len(items)} : it.id = x).parent
        ELSE parentMap[x]]

\* Fault variant of CompResult: a failed fetch is treated as an empty
\* answer, cached and shown, and the picker goes on.
CompResult_ErrorAsEmpty(msg) ==
    /\ prog = "running"
    /\ BagIn(msg, cmds)
    /\ msg.done /\ msg.kind = "comps"
    /\ TuiStay([m EXCEPT
                   !.compCache = MapPut(@, msg.parent, msg.items),
                   !.parentMap = RecordParents(@, msg.items),
                   !.lists["compartments"] = SetItems(@, msg.items)],
               {msg})

\* Update(compResultMsg): an error ends the program; else the items are
\* cached under their parent and shown, whatever the mode and the current
\* parent are by now.
CompResult(msg) ==
    /\ prog = "running"
    /\ BagIn(msg, cmds)
    /\ msg.done /\ msg.kind = "comps"
    /\ IF msg.err # Nil
       THEN TuiQuit([m EXCEPT !.err = msg.err])
       ELSE TuiStay([m EXCEPT
                        !.compCache = MapPut(@, msg.parent, msg.items),
                        !.parentMap = RecordParents(@, msg.items),
                        !.lists["compartments"] = SetItems(@, msg.items)],
                    {msg})

\* The goroutine of a compartment load reads the map m.compCache
\* (loadCompsCmd) while Update stores a result into the same map, with no
\* synchronisation between them.  The read may come before or after the
\* write (RunCmd before or after CompResult); the third outcome is that the
\* Go runtime detects the concurrent map read and map write and ends the
\* process with a fatal error while Update handles msg.
CompCacheRace(c, msg) ==
    /\ prog = "running"
    /\ BagIn(c, cmds)
    /\ ~c.done /\ c.kind = "comps"
    /\ BagIn(msg, cmds)
    /\ msg.done /\ msg.kind = "comps" /\ msg.err = Nil
    /\ nupd < MaxUpdates
    /\ nupd' = nupd + 1
    /\ prog' = "crashed"
    /\ cmds' = EmptyBag
    /\ UNCHANGED <<m, nsave, file, tuiFrame>>

\* Fault variant of RegionResult: after an error the static list is shown
\* but not cached.
RegionResult_NoCacheOnError(msg) ==
    /\ prog = "running"
    /\ BagIn(msg, cmds)
    /\ msg.done /\ msg.kind = "regions"
    /\ LET shown == IF msg.err # Nil \/ Len(msg.items) = 0
                    THEN fallbackRegions ELSE msg.items
       IN  TuiStay([m EXCEPT
                       !.regionCache = IF msg.err # Nil THEN @
                                       ELSE MapPut(@, msg.ctx.name, msg.items),
                       !.lists["regions"] = Select(SetItems(@, shown), 0)],
                   {msg})

\* Update(regionResultMsg): the regions (the static list after an error or
\* an empty answer) are shown with the first one highlighted; the cache
\* keeps the static list after an error, else the answer as it came.
RegionResult(msg) ==
    /\ prog = "running"
    /\ BagIn(msg, cmds)
    /\ msg.done /\ msg.kind = "regions"
    /\ LET cached == IF msg.err # Nil THEN fallbackRegions ELSE msg.items
           shown == IF msg.err # Nil \/ Len(msg.items) = 0
                    THEN fallbackRegions ELSE msg.items
       IN  TuiStay([m EXCEPT
                       !.regionCache = MapPut(@, msg.ctx.name, cached),
                       !.lists["regions"] = Select(SetItems(@, shown), 0)],
                   {msg})

\* One step of the picker: its start, a key, a command run in its goroutine
\* or a message delivered to Update.
NextTui ==
    \/ \E profiles \in ProfileSets, defaultProfile \in DefaultProfiles,
          startMode \in StartModes :
            TuiStart(profiles, defaultProfile, startMode)
    \/ KeyEnter
    \/ KeySpace
    \/ KeySave
    \/ KeyQuit
    \/ KeyFilterCancel
    \/ KeyFilterInput
    \/ KeyBack
    \/ Key_r
    \/ Key_R
    \/ Key_c
    \/ Key_C
    \/ Key_t
    \/ Key_T
    \/ Key_P
    \/ KeySlash
    \/ CursorUp
    \/ CursorDown
    \/ \E c \in BagToSet(cmds) : RunCmd(c)
    \/ \E msg \in BagToSet(cmds) : CompResult(msg)
    \/ \E c, msg \in BagToSet(cmds) : CompCacheRace(c, msg)
    \/ \E msg \in BagToSet(cmds) : RegionResult(msg)

\* The profiles an OCI config file may define, for the tenancy list.
AllProfileSets == SUBSET {"DEFAULT", "DEV", "PROD", "QA"}

\* cfg.Options.DefaultProfile, for the tenancy list: none, a profile of
\* either tenancy, or a name the OCI config may not define.
AllDefaultProfiles == {"", "DEV", "PROD", "QA"}

\* One step of the picker in and from its tenancy list: the start in
\* tenancies mode, the cursor keys, space and enter on a tenancy, T back to
\* the tenancy list, and the compartment fetch that enter starts.
NextTenancies ==
    \/ \E profiles \in AllProfileSets, defaultProfile \in AllDefaultProfiles :
            TuiStart(profiles, defaultProfile, "tenancies")
    \/ CursorUp
    \/ CursorDown
    \/ KeySpace
    \/ KeyEnter
    \/ Key_T
    \/ \E c \in BagToSet(cmds) : RunCmd(c)
    \/ \E msg \in BagToSet(cmds) : CompResult(msg)
    \/ \E c, msg \in BagToSet(cmds) : CompCacheRace(c, msg)

-----------------------------------------------------------------------------
(* internal/cmd tui: primeTenancyNames and the tenancy name cache *)

\* make(chan struct{}, 4): the capacity of the channel sem.
SemCap == 4

\* The profiles primeTenancyNames may be given: none, one, or six profiles
\* of five tenancies (DEFAULT and DEV share t1), one more tenancy than the
\* channel sem has room for.
PrimeProfileSets ==
    { {}, {"PROD"}, {"DEFAULT", "DEV", "PROD", "STAGE", "TEST", "LAB"} }

\* cfg.Options.OCIConfigPath
OCIConfigPaths == {"", "~/.oci/config"}

\* The tenancy OCIDs of the profiles.
AllTenancies ==
    {Profile(p).tenancy :
        p \in {"DEFAULT", "DEV", "PROD", "STAGE", "TEST", "LAB"}}

\* details.TenancyName as the identity service gives it for a tenancy.
FriendlyName(tid) == "tenancy " \o tid

\* What the cache may hold when the call starts.
InitialNames ==
    { EmptyMap,
      MapPut(EmptyMap, "t2", FriendlyName("t2")),
      MapPut(MapPut(EmptyMap, "t1", FriendlyName("t1")),
             "t3", FriendlyName("t3")) }

\* The RWMutex with no holder.
Unlocked == [writer |-> Nil, readers |-> 0]

\* No call of primeTenancyNames is running.  todo are the profiles the
\* first loop has not visited, cur the one it is at, needed the map
\* tenancy OCID -> representative profile, tospawn the keys of needed the
\* second loop has not visited, names0 the cache as the call found it.
PrimeOff ==
    [pc |-> "off", profiles |-> {}, path |-> "", todo |-> {}, cur |-> "",
     needed |-> EmptyMap, tospawn |-> {}, names0 |-> EmptyMap]

\* No goroutine was started for a tenancy.  name is the TenancyName its
\* lookup returned, "" before that and after an error.
NoGoroutine == [pc |-> "none", name |-> ""]

\* The tenancy name cache is empty and nothing uses it.
PrimeAtRest ==
    /\ tenancyNames = EmptyMap
    /\ tenancyNamesMu = Unlocked
    /\ prime = PrimeOff
    /\ gor = [t \in {} |-> NoGoroutine]
    /\ sem = 0
    /\ wg = 0
    /\ nlookup = [t \in {} |-> 0]

\* Everything the steps of primeTenancyNames leave alone.
primeFrame ==
    <<cfg, ret, latest,
      file, lock, svc, pc, req, loc, resp, nread, nwritten, saveFailed, spare,
      crashed, cli,
      m, cmds, prog, nupd, nsave>>

\* abbreviateOCID: up to 16 bytes as they are, else the first six and the
\* last six with an ellipsis between (the one-character ellipsis of the
\* source is written as three dots).
abbreviateOCID(s) ==
    IF Len(s) <= 16 THEN s
    ELSE SubSeq(s, 1, 6) \o "..." \o SubSeq(s, Len(s) - 5, Len(s))

\* lookupTenancyName without its locking: the cached name, "" when none.
lookupTenancyName(ocid) == MapGet(tenancyNames, ocid)

\* tenancyItem.Title of the item tenanciesFromProfiles builds for a
\* tenancy: the cached friendly name, else the abbreviated OCID.
TenancyTitle(ocid) ==
    IF lookupTenancyName(ocid) # "" THEN lookupTenancyName(ocid)
    ELSE abbreviateOCID(ocid)

\* primeTenancyNames is called: with no profiles or no OCI config path it
\* returns at once, else it starts its first loop.
PrimeCall(profiles, path) ==
    /\ prime.pc = "off"
    /\ prime' = [PrimeOff EXCEPT
                    !.pc = IF profiles = {} \/ path = ""
                           THEN "returned" ELSE "scan",
                    !.profiles = profiles,
                    !.path = path,
                    !.todo = profiles,
                    !.names0 = tenancyNames]
    /\ UNCHANGED <<tenancyNames, tenancyNamesMu, gor, sem, wg, nlookup,
                   primeFrame>>

\* First loop, lookupTenancyName(p.Tenancy): RLock for the next profile,
\* in the order the map iteration gives.
ScanRLock(p) ==
    /\ prime.pc = "scan"
    /\ p \in prime.todo
    /\ tenancyNamesMu.writer = Nil
    /\ tenancyNamesMu' = [tenancyNamesMu EXCEPT !.readers = @ + 1]
    /\ prime' = [prime EXCEPT !.pc = "rlocked", !.cur = p]
    /\ UNCHANGED <<tenancyNames, gor, sem, wg, nlookup, primeFrame>>

\* Fault variant of ScanRead: the first loop does not skip the tenancies
\* whose name is cached.
ScanRead_IgnoreCache ==
    /\ prime.pc = "rlocked"
    /\ tenancyNamesMu' = [tenancyNamesMu EXCEPT !.readers = @ - 1]
    /\ prime' = [prime EXCEPT
                    !.pc = "scan",
                    !.todo = @ \ {prime.cur},
                    !.cur = "",
                    !.needed = MapPut(@, Profile(prime.cur).tenancy,
                                      prime.cur)]
    /\ UNCHANGED <<tenancyNames, gor, sem, wg, nlookup, primeFrame>>

\* First loop: the read of the cache and the deferred RUnlock; a tenancy
\* with a cached name is skipped, else needed[p.Tenancy] = p.
ScanRead ==
    /\ prime.pc = "rlocked"
    /\ tenancyNamesMu' = [tenancyNamesMu EXCEPT !.readers = @ - 1]
    /\ prime' = [prime EXCEPT
                    !.pc = "scan",
                    !.todo = @ \ {prime.cur},
                    !.cur = "",
                    !.needed =
                        IF lookupTenancyName(Profile(prime.cur).tenancy) # ""
                        THEN @
                        ELSE MapPut(@, Profile(prime.cur).tenancy,
                                    prime.cur)]
    /\ UNCHANGED <<tenancyNames, gor, sem, wg, nlookup, primeFrame>>

\* The first loop is over: return when nothing is needed, else go on to
\* the second loop.
ScanEnd ==
    /\ prime.pc = "scan"
    /\ prime.todo = {}
    /\ prime' = [prime EXCEPT
                    !.pc = IF DOMAIN prime.needed = {}
                           THEN "returned" ELSE "spawn",
                    !.tospawn = DOMAIN prime.needed]
    /\ UNCHANGED <<tenancyNames, tenancyNamesMu, gor, sem, wg, nlookup,
                   primeFrame>>

\* Second loop: wg.Add(1) and the go statement for one key of needed.
Spawn(tid) ==
    /\ prime.pc = "spawn"
    /\ tid \in prime.tospawn
    /\ wg' = wg + 1
    /\ gor' = [gor EXCEPT ![tid] = [NoGoroutine EXCEPT !.pc = "spawned"]]
    /\ prime' = [prime EXCEPT !.tospawn = @ \ {tid}]
    /\ UNCHANGED <<tenancyNames, tenancyNamesMu, sem, nlookup, primeFrame>>

\* Fault variant of GoAcquire: the goroutine goes on without a place in
\* the channel.
GoAcquire_NoCap(tid) ==
    /\ gor[tid].pc = "spawned"
    /\ sem' = sem + 1
    /\ gor' = [gor EXCEPT ![tid].pc = "sem"]
    /\ UNCHANGED <<tenancyNames, tenancyNamesMu, prime, wg, nlookup,
                   primeFrame>>

\* The goroutine: sem <- struct{}{} blocks while the channel is full.
GoAcquire(tid) ==
    /\ gor[tid].pc = "spawned"
    /\ sem < SemCap
    /\ sem' = sem + 1
    /\ gor' = [gor EXCEPT ![tid].pc = "sem"]
    /\ UNCHANGED <<tenancyNames, tenancyNamesMu, prime, wg, nlookup,
                   primeFrame>>

\* The goroutine picks a profile of its tenancy (the first the map
\* iteration gives) and calls fetchIdentityDetails; with no such profile
\* it returns.
GoFetch(tid) ==
    /\ gor[tid].pc = "sem"
    /\ LET mine == {p \in prime.profiles : Profile(p).tenancy = tid}
       IN  IF mine = {}
           THEN /\ gor' = [gor EXCEPT ![tid].pc = "exit"]
                /\ UNCHANGED nlookup
           ELSE /\ gor' = [gor EXCEPT ![tid].pc = "fetch"]
                /\ nlookup' = [nlookup EXCEPT ![tid] = @ + 1]
    /\ UNCHANGED <<tenancyNames, tenancyNamesMu, prime, sem, wg, primeFrame>>

\* fetchIdentityDetails returns: an error (the goroutine returns), or the
\* details, whose TenancyName may be empty.
GoFetched(tid) ==
    /\ gor[tid].pc = "fetch"
    /\ \/ gor' = [gor EXCEPT ![tid].pc = "exit"]
       \/ \E name \in {FriendlyName(tid), ""} :
              gor' = [gor EXCEPT ![tid].pc = "record", ![tid].name = name]
    /\ UNCHANGED <<tenancyNames, tenancyNamesMu, prime, sem, wg, nlookup,
                   primeFrame>>

\* recordTenancyName: nothing to do for an empty OCID or name, else Lock,
\* which waits until the mutex has neither a writer nor readers.
GoLock(tid) ==
    /\ gor[tid].pc = "record"
    /\ IF tid = "" \/ gor[tid].name = ""
       THEN /\ gor' = [gor EXCEPT ![tid].pc = "exit"]
            /\ UNCHANGED tenancyNamesMu
       ELSE /\ tenancyNamesMu = Unlocked
            /\ tenancyNamesMu' = [tenancyNamesMu EXCEPT !.writer = tid]
            /\ gor' = [gor EXCEPT ![tid].pc = "locked"]
    /\ UNCHANGED <<tenancyNames, prime, sem, wg, nlookup, primeFrame>>

\* recordTenancyName: tenancyNames[ocid] = name.
GoWrite(tid) ==
    /\ gor[tid].pc = "locked"
    /\ tenancyNames' = MapPut(tenancyNames, tid, gor[tid].name)
    /\ gor' = [gor EXCEPT ![tid].pc = "written"]
    /\ UNCHANGED <<tenancyNamesMu, prime, sem, wg, nlookup, primeFrame>>

\* recordTenancyName: the deferred Unlock.
GoUnlock(tid) ==
    /\ gor[tid].pc = "written"
    /\ tenancyNamesMu' = [tenancyNamesMu EXCEPT !.writer = Nil]
    /\ gor' = [gor EXCEPT ![tid].pc = "exit"]
    /\ UNCHANGED <<tenancyNames, prime, sem, wg, nlookup, primeFrame>>

\* The goroutine returns and its deferred calls run: <-sem, then
\* wg.Done().
GoReturn(tid) ==
    /\ gor[tid].pc = "exit"
    /\ sem' = sem - 1
    /\ wg' = wg - 1
    /\ gor' = [gor EXCEPT ![tid].pc = "done"]
    /\ UNCHANGED <<tenancyNames, tenancyNamesMu, prime, nlookup, primeFrame>>

\* wg.Wait() after the second loop returns when the counter is zero; the
\* deferred cancel runs and primeTenancyNames returns.
Wait ==
    /\ prime.pc = "spawn"
    /\ prime.tospawn = {}
    /\ wg = 0
    /\ prime' = [prime EXCEPT !.pc = "returned"]
    /\ UNCHANGED <<tenancyNames, tenancyNamesMu, gor, sem, wg, nlookup,
                   primeFrame>>

\* One step of primeTenancyNames or of one of its goroutines.
NextPrime ==
    \/ \E profiles \in PrimeProfileSets, path \in OCIConfigPaths :
            PrimeCall(profiles, path)
    \/ \E p \in prime.todo : ScanRLock(p)
    \/ ScanRead
    \/ ScanEnd
    \/ \E tid \in AllTenancies : Spawn(tid)
    \/ \E tid \in AllTenancies : GoAcquire(tid)
    \/ \E tid \in AllTenancies : GoFetch(tid)
    \/ \E tid \in AllTenancies : GoFetched(tid)
    \/ \E tid \in AllTenancies : GoLock(tid)
    \/ \E tid \in AllTenancies : GoWrite(tid)
    \/ \E tid \in AllTenancies : GoUnlock(tid)
    \/ \E tid \in AllTenancies : GoReturn(tid)
    \/ Wait

-----------------------------------------------------------------------------
(* Specifications *)

NextStore ==
    \/ \E ctx \in UpsertArgs : Upsert(ctx)
    \/ \E name \in Names : Delete(name)

InitStore ==
    /\ StoreAtRest
    /\ file = DefaultConfig
    /\ DaemonAtRest
    /\ TuiAtRest
    /\ PrimeAtRest

\* The store alone.
Spec == InitStore /\ [][NextStore]_vars

InitDaemon ==
    /\ StoreAtRest
    /\ file \in InitDocs
    /\ DaemonAtRest
    /\ TuiAtRest
    /\ PrimeAtRest

\* The daemon serving its connections.
SpecDaemon == InitDaemon /\ [][NextDaemon]_vars

\* The daemon serving its connections while a CLI command runs on the same
\* config path.
SpecShared == InitDaemon /\ [][NextShared]_vars

\* Two CLI commands on one config path, no daemon request meanwhile.
SpecCli == InitDaemon /\ [][NextCli]_vars

\* One run of the picker on a config path nobody else uses meanwhile.
SpecTui == InitDaemon /\ [][NextTui]_vars

\* The picker started in the tenancy list, over every set of profiles and
\* every default profile, the user choosing tenancies.
SpecTenancies == InitDaemon /\ [][NextTenancies]_vars

\* primeTenancyNames is called with a cache that is empty or was filled by
\* an earlier call.
InitPrime ==
    /\ StoreAtRest
    /\ file = DefaultConfig
    /\ DaemonAtRest
    /\ TuiAtRest
    /\ tenancyNames \in InitialNames
    /\ tenancyNamesMu = Unlocked
    /\ prime = PrimeOff
    /\ gor = [t \in AllTenancies |-> NoGoroutine]
    /\ sem = 0
    /\ wg = 0
    /\ nlookup = [t \in AllTenancies |-> 0]

\* One call of primeTenancyNames.  Every goroutine that can run does run
\* in the end, the mutex is granted once it is free, and every identity
\* lookup returns (with a result, an error or the 10 s timeout).
SpecPrime == InitPrime /\ [][NextPrime]_vars /\ WF_vars(NextPrime)

-----------------------------------------------------------------------------
(* Claims about the store *)

HasName(contexts, name) == \E i \in 1..Len(contexts) : contexts[i].name = name

\* C1: after any sequence of upserts and deletes on an empty store,
\* currentContext is empty or names a context that is in the list.
C1_CurrentNeverDangling ==
    cfg.current = "" \/ HasName(cfg.contexts, cfg.current)

\* A delete of a non-current context has just succeeded and the current
\* context is still set (and still stored).
C1_Witness ==
    /\ ret.op = "delete" /\ ret.err = Nil
    /\ cfg.current # ""
    /\ Len(cfg.contexts) >= 1

\* C2: no two stored contexts share a name, and the entry stored for a name
\* is the argument of the latest upsert of that name.
C2_UpsertIdempotentOnName ==
    /\ \A i, j \in 1..Len(cfg.contexts) :
          cfg.contexts[i].name = cfg.contexts[j].name => i = j
    /\ \A i \in 1..Len(cfg.contexts) :
          cfg.contexts[i] = latest[cfg.contexts[i].name]

\* A name was upserted a second time with other fields: the store holds one
\* entry for it, the later one, next to another context.
C2_Witness ==
    /\ ret.op = "upsert"
    /\ Len(cfg.contexts) = 2
    /\ cfg.contexts[1] = ret.ctx
    /\ ret.ctx.profile = "p2"
    /\ cfg.current = ret.name

\* The contexts of a list whose name is not name, in order.
Without(contexts, name) ==
    SelectSeq(contexts, LAMBDA x : x.name # name)

\* C3: DeleteContext(name) of a stored name removes exactly that entry,
\* clears currentContext when it equalled name and leaves it alone otherwise;
\* of an absent name it returns ErrContextNotFound and changes nothing.
C3_DeleteFrame ==
    [][ ret'.op = "delete" =>
          IF HasName(cfg.contexts, ret'.name)
          THEN /\ ret'.err = Nil
               /\ cfg'.contexts = Without(cfg.contexts, ret'.name)
               /\ Len(cfg'.contexts) = Len(cfg.contexts) - 1
               /\ cfg'.current =
                     IF cfg.current = ret'.name THEN "" ELSE cfg.current
          ELSE /\ ret'.err = ErrContextNotFound
               /\ cfg' = cfg ]_vars

\* The current context has just been deleted from a store that held another
\* context, which is still there.
C3_Witness ==
    /\ ret.op = "delete" /\ ret.err = Nil
    /\ cfg.current = ""
    /\ Len(cfg.contexts) = 1
    /\ cfg.contexts[1].name # ret.name

\* C4: an upsert that appends while no current context is set makes the
\* appended context current; any other upsert (a current context is set, or
\* the name is replaced) leaves currentContext as it was.
C4_FirstInsertBecomesCurrent ==
    [][ ret'.op = "upsert" =>
          cfg'.current =
             IF cfg.current = "" /\ ~HasName(cfg.contexts, ret'.name)
             THEN ret'.name
             ELSE cfg.current ]_vars

\* A context appended after the current one was deleted has become current,
\* behind an older context that did not.
C4_Witness ==
    /\ ret.op = "upsert"
    /\ Len(cfg.contexts) = 2
    /\ cfg.contexts[2] = ret.ctx
    /\ cfg.current = ret.name
    /\ ret.name # ""

-----------------------------------------------------------------------------
(* Claims about what reaches the config file *)

\* C5: every context in the persisted document has a non-empty name,
\* profile, tenancy and compartment, whichever path upserted and saved it:
\* the daemon's add_context, the CLI commands, or the picker's commit
\* (finalizeSelection), also when the picker commits with no context item
\* chosen or with an empty parentID.
C5_PersistedContextsValid ==
    \A i \in 1..Len(file.contexts) : Validate(file.contexts[i]) = Nil

-----------------------------------------------------------------------------
(* Claims about Load / Save and the daemon *)

\* Process p holds the lock file: it is between Lock and Unlock.
Holding(p) == pc[p] \in {"save_io", "save_unlock", "load_io", "load_unlock"}

\* Process p is at lock.Lock().
AtLock(p) == pc[p] \in {"save_lock", "load_lock"}

\* C6: Load and Save hold the exclusive lock for their whole duration, so no
\* two of them overlap on one path; the document is read and written only
\* under the lock; a failed Lock returns its error at once, with nothing
\* read or written and no second attempt.
C6_LoadSaveSerialized ==
    /\ [](\A p, q \in Procs :
            /\ Holding(p) => lock = p
            /\ Holding(p) /\ Holding(q) => p = q)
    /\ [][ /\ file' # file =>
                \E p \in Procs : pc[p] = "save_io" /\ lock = p /\ lock' = p
           /\ \A q \in CliProcs :
                (cli'[q].cfg # cli[q].cfg /\ pc'[q] = "load_unlock") =>
                    (pc[q] = "load_io" /\ lock = q)
           /\ \A p \in Procs :
                (AtLock(p) /\ pc'[p] # pc[p] /\ ~Holding(p)') =>
                   /\ file' = file /\ lock' = lock
                   /\ pc'[p] \in {"resp", "done"}
                   /\ (p \in Conns) =>
                         (resp'[p] = Fail(ErrLock) /\ ~loc'[p].wrote)
                   /\ (p \in CliProcs) => (cli'[p].err = ErrLock) ]_vars

\* One process is inside Load or Save holding the lock while another one
\* waits at its Lock call.
C6_Witness ==
    \E p, q \in Procs : p # q /\ Holding(p) /\ lock = p /\ AtLock(q)

\* Connection c is inside a store operation of its handler (the save that
\* follows a mutation included).
InHandler(c) == pc[c] \notin {"read", "resp", "closed"}

\* C7: the store operations of two connections never interleave: at most
\* one connection is inside a handler's store operation at any time.
C7_HandlersMutuallyExclusive ==
    \A c, d \in Conns : InHandler(c) /\ InHandler(d) => c = d

\* C8: on each connection every request read gets exactly one response, in
\* order: a handler runs only for the one request not yet answered, and when
\* the loop is back at reading, or has ended, every request read has been
\* answered.
C8_OneResponsePerRequest ==
    \A c \in Conns :
        /\ nwritten[c] <= nread[c]
        /\ nread[c] <= nwritten[c] + 1
        /\ (InHandler(c) \/ pc[c] = "resp") => nread[c] = nwritten[c] + 1
        /\ pc[c] \in {"read", "closed"} => nread[c] = nwritten[c]

\* The error a request must be answered with whatever the store holds, or
\* Nil when the store decides.
FixedError(r) ==
    IF ~r.wellFormed THEN ErrInvalidRequest
    ELSE IF r.method \notin {"get_current", "list", "use_context",
                             "add_context", "delete_context", "export"}
    THEN ErrNotImplemented
    ELSE IF r.method = "add_context" /\ ~r.decodes THEN ErrDecode
    ELSE IF r.method = "add_context" /\ r.context.compartment = ""
    THEN "context compartment_ocid is required"
    ELSE Nil

\* C9: a malformed line is answered "invalid request", a handler error is
\* answered ok=false with the error's text, the connection stays open after
\* either (the loop is back at reading once the response is written), and
\* only a read error ends a connection's loop.
C9_ErrorsKeepConnectionOpen ==
    [][ \A c \in Conns :
          /\ pc'[c] = "resp" /\ pc[c] # "resp" =>
                /\ FixedError(req'[c]) # Nil =>
                      resp'[c] = Fail(FixedError(req'[c]))
                /\ ~resp'[c].ok =>
                      /\ resp'[c].data = NoData
                      /\ resp'[c].error \in
                            {ErrInvalidRequest, ErrNotImplemented, ErrDecode,
                             ErrContextNotFound, ErrNoCurrent, ErrLock,
                             ErrWrite,
                             "context compartment_ocid is required",
                             ErrUnsupportedFormat("xml")}
          /\ pc[c] = "resp" /\ pc'[c] # "resp" => pc'[c] = "read"
          /\ pc'[c] = "closed" /\ pc[c] # "closed" => pc[c] = "read" ]_vars

\* C9 without its last sentence: what holds of every error answer.
C9_ErrorAnswers ==
    [][ \A c \in Conns :
          /\ (pc'[c] = "resp" /\ pc[c] # "resp"
                 /\ FixedError(req'[c]) # Nil) =>
                    resp'[c] = Fail(FixedError(req'[c]))
          /\ pc[c] = "resp" /\ pc'[c] # "resp" /\ ~crashed' =>
                pc'[c] = "read" ]_vars

\* No other connection has sent anything yet.
Alone(c) == \A d \in Conns \ {c} : nread[d] = 0

\* C10: use_context of an absent name answers not-found, changes neither
\* the store nor the file and never reaches Save; of a stored name it sets
\* currentContext and answers ok only after Save has written the store.
C10_UseContext ==
    /\ [](\A c \in Conns :
            pc[c] = "resp" /\ req[c].method = "use_context" =>
               IF resp[c].ok
               THEN /\ loc[c].wrote
                    /\ resp[c].data = Data("current_context", req[c].name)
                    /\ HasName(loc[c].snap.contexts, req[c].name) \/ ~Alone(c)
                    /\ Alone(c) =>
                          /\ svc.current = req[c].name
                          /\ file = svc
               ELSE /\ ~loc[c].wrote
                    /\ resp[c].error = ErrContextNotFound =>
                          loc[c].snap = DefaultConfig)
    /\ [][ \A c \in Conns :
             /\ pc[c] = "uc_get" /\ pc'[c] # "uc_get" /\ ~crashed' =>
                   /\ svc' = svc /\ file' = file /\ lock' = lock
                   /\ IF HasName(svc.contexts, req[c].name)
                      THEN pc'[c] = "uc_set"
                      ELSE /\ pc'[c] = "resp"
                           /\ resp'[c] = Fail(ErrContextNotFound)
             /\ pc[c] = "uc_set" /\ pc'[c] # "uc_set" /\ ~crashed' =>
                   /\ svc' = [svc EXCEPT !.current = req[c].name]
                   /\ pc'[c] = "save_arg" ]_vars

\* A use_context of a stored name that was not current is about to be
\* answered ok, the switch saved.
C10_Witness ==
    \E c \in Conns :
        /\ pc[c] = "resp" /\ req[c].method = "use_context" /\ resp[c].ok
        /\ req[c].name = "b"
        /\ file.current = "b"

\* The payload of an add_context request is one addContext rejects: it does
\* not decode, or Validate returns an error for it.
Rejected(r) ==
    r.method = "add_context" /\ (~r.decodes \/ Validate(r.context) # Nil)

\* Connection c is inside UpsertContext.
InUpsert(c) == pc[c] \in {"up_scan", "up_store", "up_append", "up_cur"}

\* C11: add_context validates the decoded context before it touches the
\* store: a payload that does not decode or lacks a required field is
\* answered with the error, and the handler changes neither the store nor
\* the file and never calls Save; a valid payload is upserted first and
\* saved afterwards, the response being ok only once the store holding the
\* context has been written.
C11_AddContextValidates ==
    /\ [](\A c \in Conns :
            /\ (pc[c] \notin {"read", "closed"} /\ Rejected(req[c])) =>
                  /\ pc[c] = "resp"
                  /\ resp[c] =
                        Fail(IF ~req[c].decodes THEN ErrDecode
                             ELSE Validate(req[c].context))
                  /\ loc[c] = LocInit
            /\ (req[c].method = "add_context" /\ InUpsert(c)) =>
                  /\ Validate(req[c].context) = Nil
                  /\ ~loc[c].wrote /\ loc[c].snap = LocInit.snap
            /\ (pc[c] = "resp" /\ req[c].method = "add_context"
                   /\ resp[c].ok) =>
                  /\ loc[c].wrote
                  /\ resp[c].data = Data("context", req[c].context)
                  /\ Alone(c) =>
                        /\ file = svc
                        /\ \E i \in 1..Len(file.contexts) :
                              file.contexts[i] = req[c].context)
    /\ [][ \A c \in Conns :
             /\ (pc'[c] # pc[c] /\ (Rejected(req[c]) \/ Rejected(req'[c]))
                    /\ ~crashed') =>
                   (svc' = svc /\ file' = file /\ lock' = lock)
             /\ (req[c].method = "add_context" /\ pc'[c] = "save_arg"
                    /\ pc[c] # "save_arg") =>
                   /\ pc[c] \in {"up_store", "up_cur"}
                   /\ file' = file
             /\ (req[c].method = "add_context"
                    /\ pc[c] \in {"up_store", "up_append"}
                    /\ pc'[c] # pc[c] /\ ~crashed') =>
                   \E i \in 1..Len(svc'.contexts) :
                       svc'.contexts[i] = req[c].context
             /\ (req[c].method = "add_context" /\ pc[c] = "save_arg"
                    /\ pc'[c] # pc[c] /\ ~crashed') =>
                   (loc'[c].snap = svc /\ svc' = svc /\ file' = file) ]_vars

\* One connection is about to answer ok to an add_context whose context
\* replaced a stored one and was saved, while another is about to answer a
\* payload without compartment with Validate's error.
C11_Witness ==
    \E c, d \in Conns :
        /\ pc[c] = "resp" /\ req[c].method = "add_context" /\ resp[c].ok
        /\ \E i \in 1..Len(file.contexts) : file.contexts[i] = CtxB2
        /\ pc[d] = "resp" /\ req[d].context = CtxNoCompartment
        /\ resp[d] = Fail("context compartment_ocid is required")

\* What a read of the current context answers on store c: the request's
\* rendering of the stored context named c.current, or the error.
CurrentAnswer(r, c) ==
    IF c.current = "" THEN Fail(ErrNoCurrent)
    ELSE IF ~HasName(c.contexts, c.current) THEN Fail(ErrContextNotFound)
    ELSE LET x == c.contexts[IndexOf(c.contexts, c.current)]
         IN  IF r.method = "get_current" \/ r.format \in {"json", ""}
             THEN Ok(Data("context", x))
             ELSE IF r.format = "env" THEN Ok(Data("env", EnvLines(x)))
             ELSE Fail(ErrUnsupportedFormat(r.format))

\* Connection c's handler is reading the current context.
ReadsCurrent(c) == req[c].method \in {"get_current", "export"}

\* C12: get_current and export answer with the stored context whose name is
\* currentContext, with "no current context set" when currentContext is
\* empty and with "context not found" when it names no stored context, and
\* they never modify the store.
C12_ReadCurrent ==
    [][ \A c \in Conns :
          (ReadsCurrent(c) /\ pc[c] \in {"gc_chk", "gc_get"}
              /\ pc'[c] # pc[c] /\ ~crashed') =>
             /\ svc' = svc /\ file' = file /\ lock' = lock
             /\ pc'[c] = "resp" => resp'[c] = CurrentAnswer(req[c], svc)
       ]_vars

\* C12 for a handler that runs with no other connection active.
C12_ReadCurrentAlone ==
    [][ \A c \in Conns :
          (ReadsCurrent(c) /\ pc[c] \in {"gc_chk", "gc_get"}
              /\ pc'[c] # pc[c] /\ ~crashed') =>
             /\ svc' = svc /\ file' = file /\ lock' = lock
             /\ (pc'[c] = "resp" /\ Alone(c)) =>
                   resp'[c] = CurrentAnswer(req[c], svc)
       ]_vars

\* C13: the daemon accepts the methods "status" and "watch" beside the six
\* others: a request with either method is answered ok=true.
C13_StatusAndWatchServed ==
    \A c \in Conns :
        (pc[c] = "resp" /\ req[c].wellFormed
            /\ req[c].method \in {"status", "watch"}) =>
           resp[c].ok

-----------------------------------------------------------------------------
(* Claims about the picker *)

\* The active list has a row the commit folds into the context item (the
\* compartments list needs none: its commit takes the current parent).
HasRowToCommit == m.mode = "compartments" \/ HasSelected(Active)

\* The step ends the session with the store and the file untouched.
QuitsUnsaved ==
    /\ prog' = "quit"
    /\ nsave' = nsave /\ nsave' = 0
    /\ file' = file /\ m'.cfg = m.cfg
    /\ ~m'.finalized /\ m'.selected = ""

\* The step upserts, calls Save once and ends the session.
CommitsOnce ==
    /\ prog' = "quit"
    /\ nsave = 0 /\ nsave' = 1
    /\ m'.finalized

HasEntry(contexts, x) ==
    /\ HasName(contexts, x.name)
    /\ contexts[IndexOf(contexts, x.name)] = x

\* C15: in compartments mode, when the listed children are empty, confirm
\* (enter, right) commits: the active context is upserted and saved with
\* its compartment set to the current parentID, and the session ends.
C15_LeafConfirmCommitsParent ==
    [][ (KeyEnter /\ m.mode = "compartments" /\ ~Active.filtering
            /\ Len(Active.items) = 0) =>
           /\ prog' = "quit" /\ m'.finalized /\ nsave' = nsave + 1
           /\ m'.ctxItem = [m.ctxItem EXCEPT !.compartment = m.parentID]
           /\ m'.parentID = m.parentID
           /\ HasEntry(m'.cfg.contexts, m'.ctxItem)
           /\ m'.cfg.current = m.ctxItem.name
           /\ file' = IF m'.err = Nil THEN m'.cfg ELSE file ]_vars

\* The children of compartment c2 were fetched and found empty, confirm
\* committed, and the document holds the current context with compartment
\* c2.
C15_Witness ==
    /\ prog = "quit" /\ m.finalized /\ m.err = Nil
    /\ m.mode = "compartments"
    /\ m.parentID = "c2"
    /\ MapHas(m.compCache, "c2") /\ MapGet(m.compCache, "c2") = <<>>
    /\ Len(m.lists["compartments"].items) = 0
    /\ HasName(file.contexts, file.current)
    /\ file.contexts[IndexOf(file.contexts, file.current)].compartment = "c2"
    /\ m.ctxItem.tenancy # "c2"

\* A mode-switch shortcut: r, R (regions), c, C (compartments), t, T
\* (tenancies), P (contexts).
ModeSwitchKey ==
    Key_r \/ Key_R \/ Key_c \/ Key_C \/ Key_t \/ Key_T \/ Key_P

\* C16: a staged compartment id survives mode switches: no mode-switch
\* shortcut changes pendingSelectionID, and neither does a command running
\* or its result arriving in between.
C16_StagedCompartmentSurvivesSwitch ==
    [][ (\/ ModeSwitchKey
         \/ \E c \in BagToSet(cmds) :
               RunCmd(c) \/ CompResult(c) \/ RegionResult(c)) =>
           m'.pendingSelectionID = m.pendingSelectionID ]_vars

\* A compartment was staged in the compartments list and the picker now
\* shows the tenancy list, the staged id still in place.
C16_Witness ==
    /\ prog = "running"
    /\ m.mode = "tenancies"
    /\ m.pendingSelectionID = "c1"
    /\ m.parentID = "c1"

\* C17: when the region fetch for a context fails, the static region list
\* is shown and cached under that context's name and the session goes on;
\* a cached context keeps being cached for the rest of the session, and
\* entering the region list for a cached context (r, R) shows the cached
\* regions without starting a fetch.
C17_RegionFallbackCached ==
    [][ /\ \A msg \in BagToSet(cmds) :
              (RegionResult(msg) /\ msg.err # Nil) =>
                 /\ prog' = "running" /\ m'.err = m.err
                 /\ MapHas(m'.regionCache, msg.ctx.name)
                 /\ m'.regionCache[msg.ctx.name] = fallbackRegions
                 /\ m'.lists["regions"].items = fallbackRegions
                 /\ m'.lists["regions"].cursor = 0
        /\ (prog = "running" /\ prog' = "running") =>
              \A k \in DOMAIN m.regionCache : MapHas(m'.regionCache, k)
        /\ (\/ Key_r /\ m.mode = "contexts" /\ HasSelected(Active)
                  /\ MapHas(m.regionCache, Selected(Active).name)
            \/ Key_R /\ m.mode # "contexts"
                  /\ MapHas(m.regionCache, m.ctxItem.name)) =>
              /\ m'.mode = "regions"
              /\ cmds' = cmds
              /\ m'.regionCache = m.regionCache
              /\ m'.lists["regions"].items = m.regionCache[m'.ctxItem.name]
       ]_vars

\* The regions of DEFAULT failed to load and the static list was cached
\* for it; after a visit to the contexts list, where the cursor moved on to
\* DEV, the picker shows the region list of DEFAULT again, from the cache:
\* nothing is in flight (five messages leave no room for a second fetch and
\* its result).
C17_Witness ==
    /\ prog = "running" /\ m.err = Nil
    /\ m.mode = "regions" /\ m.ctxItem.name = "DEFAULT"
    /\ MapHas(m.regionCache, "DEFAULT")
    /\ m.regionCache["DEFAULT"] = fallbackRegions
    /\ m.lists["regions"].items = fallbackRegions
    /\ m.lists["contexts"].cursor = 1
    /\ cmds = EmptyBag
    /\ nupd <= 5

\* a comes before b in sort.Strings order.
StrLess(a, b) ==
    \E i, j \in 1..Len(ProfileOrder) :
        i < j /\ ProfileOrder[i] = a /\ ProfileOrder[j] = b

\* The profiles of tenancy t among the picker's profiles.
ProfilesOf(t) == {p \in m.profiles : Profile(p).tenancy = t}

\* The profile a tenancy must resolve to: the configured default profile
\* when it exists and is of the tenancy, else the tenancy's first profile.
ResolvedProfile(t) ==
    IF m.defaultProfile \in ProfilesOf(t)
    THEN m.defaultProfile
    ELSE CHOOSE p \in ProfilesOf(t) :
            \A q \in ProfilesOf(t) : p = q \/ StrLess(p, q)

\* C18: the tenancy list holds exactly one item per distinct tenancy of the
\* profiles, each with the sorted names of all profiles of that tenancy;
\* choosing a tenancy (space, enter) takes the configured default profile
\* when it exists and is of that tenancy and the tenancy's first profile
\* otherwise, so the profile taken is always one of the chosen tenancy.
C18_TenancyResolvesProfile ==
    /\ [](prog = "running" =>
            LET items == m.lists["tenancies"].items
            IN  /\ \A p \in m.profiles :
                      \E i \in 1..Len(items) :
                          items[i].tenancy = Profile(p).tenancy
                /\ \A i, j \in 1..Len(items) :
                      items[i].tenancy = items[j].tenancy => i = j
                /\ \A i \in 1..Len(items) :
                      LET ps == items[i].profiles
                      IN  /\ {ps[k] : k \in 1..Len(ps)} =
                                ProfilesOf(items[i].tenancy)
                          /\ Len(ps) > 0
                          /\ \A k, l \in 1..Len(ps) :
                                k < l => StrLess(ps[k], ps[l]))
    /\ [][ ((KeySpace \/ KeyEnter) /\ m.mode = "tenancies"
               /\ ~Active.filtering /\ HasSelected(Active)) =>
              LET t == Selected(Active).tenancy
              IN  /\ m'.ctxItem.name = ResolvedProfile(t)
                  /\ m'.ctxItem.profile = ResolvedProfile(t)
                  /\ m'.ctxItem.name \in m.profiles
                  /\ m'.ctxItem.tenancy = t
                  /\ Profile(m'.ctxItem.name).tenancy = t
                  /\ m'.parentID = t ]_vars

\* With the default profile QA of tenancy t2 configured, tenancy t1 was
\* chosen among two tenancies: its first profile DEFAULT was taken, not the
\* default, and not DEV.
C18_Witness ==
    /\ prog = "running"
    /\ m.defaultProfile = "QA"
    /\ m.profiles = {"DEFAULT", "DEV", "PROD", "QA"}
    /\ Len(m.lists["tenancies"].items) = 2
    /\ m.lists["tenancies"].items[1].profiles = <<"DEFAULT", "DEV">>
    /\ m.pendingTenancyOCID = "t1"
    /\ m.ctxItem.name = "DEFAULT"

\* C19: a commit that reaches finalizeSelection makes the active context
\* current in the store and upserts it with compartment = parentID (the
\* other stored contexts stay as they were) before it saves: what Save
\* writes is that store.  After a successful commit the document's
\* currentContext names a context of the document with that compartment;
\* after a failed Save the document is as before.  Either way the session
\* ends.
C19_CommitPersistsCurrent ==
    [][ nsave' # nsave =>
          /\ prog = "running" /\ prog' = "quit"
          /\ m'.finalized /\ m'.selected = m'.ctxItem.name
          /\ m'.ctxItem.compartment = m'.parentID
          /\ m'.cfg.current = m'.ctxItem.name
          /\ HasEntry(m'.cfg.contexts, m'.ctxItem)
          /\ Without(m'.cfg.contexts, m'.ctxItem.name) =
                Without(m.cfg.contexts, m'.ctxItem.name)
          /\ IF m'.err = Nil
             THEN /\ file' = m'.cfg
                  /\ HasName(file'.contexts, file'.current)
                  /\ file'.contexts[IndexOf(file'.contexts, file'.current)]
                        .compartment = m'.parentID
             ELSE file' = file ]_vars

\* A commit from the contexts list, with compartment c1 staged for the
\* highlighted context DEFAULT, was saved into a document that held two
\* other contexts and named another one current.
C19_Witness ==
    /\ prog = "quit" /\ nsave = 1 /\ m.err = Nil
    /\ m.mode = "contexts"
    /\ m.pendingSelectionID = "c1"
    /\ file.current = "DEFAULT"
    /\ Len(file.contexts) = 3
    /\ file.contexts[3] = Ctx("DEFAULT", "DEFAULT", "t1", "c1", "r1")

\* The staging kinds that are set in model mm.
Staged(mm) ==
    {k \in {"context", "tenancy", "compartment", "region"} :
        CASE k = "context" -> mm.pendingContextName # ""
          [] k = "tenancy" -> mm.pendingTenancyOCID # ""
          [] k = "compartment" -> mm.pendingSelectionID # ""
          [] OTHER -> mm.pendingRegion # ""}

\* C20: in every reachable navigation state at most one of
\* pendingContextName, pendingTenancyOCID, pendingSelectionID and
\* pendingRegion is non-empty.
C20_AtMostOneStagingKind == Cardinality(Staged(m)) <= 1

\* C20 as the code has it: the four stagings are kept per list and are not
\* exclusive.  Staging a context clears the other three; staging a tenancy
\* stages its resolved profile as the context with it and clears the
\* compartment and the region; staging a compartment or a region leaves the
\* other stagings as they are.  A staged tenancy is always accompanied by a
\* staged context of that tenancy.
C20_StagingKindsPerList ==
    /\ [](m.pendingTenancyOCID # "" =>
            /\ m.pendingContextName \in m.profiles
            /\ Profile(m.pendingContextName).tenancy = m.pendingTenancyOCID)
    /\ [][ (KeySpace /\ HasSelected(Active)) =>
              CASE m.mode = "contexts" ->
                      /\ m'.pendingContextName = Selected(Active).name
                      /\ Staged(m') \subseteq {"context"}
                [] m.mode = "tenancies" ->
                      /\ m'.pendingTenancyOCID = Selected(Active).tenancy
                      /\ m'.pendingContextName = m'.ctxItem.name
                      /\ Staged(m') = {"tenancy", "context"}
                [] m.mode = "compartments" ->
                      /\ m'.pendingSelectionID = Selected(Active).id
                      /\ Staged(m') = Staged(m) \cup {"compartment"}
                      /\ m'.pendingContextName = m.pendingContextName
                      /\ m'.pendingTenancyOCID = m.pendingTenancyOCID
                      /\ m'.pendingRegion = m.pendingRegion
                [] OTHER ->
                      /\ m'.pendingRegion = Selected(Active)
                      /\ Staged(m') = Staged(m) \cup {"region"}
                      /\ m'.pendingContextName = m.pendingContextName
                      /\ m'.pendingTenancyOCID = m.pendingTenancyOCID
                      /\ m'.pendingSelectionID = m.pendingSelectionID
       ]_vars

\* A tenancy was staged, and with it its profile as the context; after
\* enter a compartment under it was staged as well: three kinds are set.
C20_Witness ==
    /\ prog = "running"
    /\ m.mode = "compartments"
    /\ Staged(m) = {"context", "tenancy", "compartment"}
    /\ m.pendingTenancyOCID = "t1"
    /\ m.pendingSelectionID = "c2"

-----------------------------------------------------------------------------
(* Claims about the picker's navigation *)

\* The identity the active list's highlighted row has for its kind.
RowIdentity ==
    CASE m.mode = "contexts" -> Selected(Active).name
      [] m.mode = "tenancies" -> Selected(Active).tenancy
      [] m.mode = "compartments" -> Selected(Active).id
      [] OTHER -> Selected(Active)

\* The staged selection of the kind of mode md in model mm.
StagedOf(mm, md) ==
    CASE md = "contexts" -> mm.pendingContextName
      [] md = "tenancies" -> mm.pendingTenancyOCID
      [] md = "compartments" -> mm.pendingSelectionID
      [] OTHER -> mm.pendingRegion

\* C21: space in any mode records the identity of the highlighted row as
\* the staged selection of that mode's kind (context name, tenancy id,
\* compartment id, region name), leaves the mode as it is, starts no fetch,
\* and neither changes the Config nor saves it; the picker keeps running.
C21_SpaceStagesRow ==
    [][ KeySpace =>
          /\ m'.mode = m.mode
          /\ cmds' = cmds
          /\ m'.cfg = m.cfg
          /\ file' = file
          /\ nsave' = nsave
          /\ prog' = prog
          /\ ~m'.finalized
          /\ (HasSelected(Active) => StagedOf(m', m.mode) = RowIdentity)
      ]_vars

\* The second region of the list was staged in regions mode.
C21_Witness ==
    /\ prog = "running"
    /\ m.mode = "regions"
    /\ Active.cursor = 1
    /\ Len(Active.items) = 2
    /\ m.pendingRegion = Active.items[2]
    /\ m.ctxItem.region = Active.items[2]

\* C22: enter on a region row (filter prompt closed) makes that region the
\* region of the active context item and returns to contexts mode without
\* committing: no upsert into the Config, no Save, finalized stays false,
\* no command is started and the picker keeps running.
C22_RegionConfirmAppliesOnly ==
    [][ (KeyEnter /\ m.mode = "regions" /\ ~Active.filtering
                  /\ HasSelected(Active)) =>
          /\ m'.ctxItem = [m.ctxItem EXCEPT !.region = Selected(Active)]
          /\ m'.regionSet
          /\ m'.mode = "contexts"
          /\ m'.cfg = m.cfg
          /\ file' = file
          /\ nsave' = nsave
          /\ ~m'.finalized
          /\ cmds' = cmds
          /\ prog' = "running"
      ]_vars

\* Back in the contexts list with region r2 applied to profile DEFAULT,
\* whose own region is r1; nothing was saved.
C22_Witness ==
    /\ prog = "running"
    /\ m.mode = "contexts"
    /\ m.regionSet
    /\ m.pendingRegion = ""
    /\ m.ctxItem = [contextItemForProfile("DEFAULT") EXCEPT !.region = "r2"]
    /\ m.lists["regions"].cursor = 1
    /\ ~m.finalized
    /\ nsave = 0
    /\ m.cfg = file

\* The parent goUpOne ascends to: the one recorded in parentMap for the
\* current parent, the tenancy when none is recorded.
RecordedParent ==
    IF MapGet(m.parentMap, m.parentID) = ""
    THEN m.ctxItem.tenancy
    ELSE MapGet(m.parentMap, m.parentID)

\* C23: backspace/delete in compartments mode (filter prompt closed): at
\* the tenancy root the mode becomes contexts, parentID stays and nothing
\* is fetched; elsewhere parentID becomes the parent recorded in parentMap
\* for it (the tenancy when none is recorded), the mode stays and exactly
\* one load of the new parentID's children is started.  In every other
\* mode the key leaves parentID as it is.
C23_AscendOneLevel ==
    [][ KeyBack =>
          IF m.mode = "compartments"
          THEN IF m.parentID = m.ctxItem.tenancy
               THEN /\ m'.mode = "contexts"
                    /\ m'.parentID = m.parentID
                    /\ cmds' = cmds
               ELSE /\ m'.mode = "compartments"
                    /\ m'.parentID = RecordedParent
                    /\ cmds' = cmds (+)
                           SetToBag({Cmd("comps", RecordedParent, m.ctxItem)})
          ELSE /\ m'.parentID = m.parentID
               /\ cmds' = cmds
      ]_vars

\* After the descent into c1 the user went up again: the parent is the
\* tenancy t1 recorded for c1, and the reload of t1's children is in flight
\* although t1 was fetched before.
C23_Witness ==
    /\ prog = "running"
    /\ m.mode = "compartments"
    /\ m.parentID = "t1"
    /\ m.ctxItem.tenancy = "t1"
    /\ MapGet(m.parentMap, "c1") = "t1"
    /\ MapHas(m.compCache, "t1")
    /\ BagIn(Cmd("comps", "t1", m.ctxItem), cmds)
    /\ BagIn(Cmd("comps", "c1", m.ctxItem), cmds)

\* What a key routed to the list must leave alone: the mode, the four
\* staged selections, the current parent, the Config in memory and on
\* disk, and the count of Save calls.
NavState ==
    <<m.mode, m.pendingContextName, m.pendingTenancyOCID,
      m.pendingSelectionID, m.pendingRegion, m.parentID, m.ctxItem,
      m.finalized, m.cfg, file, nsave>>

\* C24: while the active list's filter prompt is open, every key but enter
\* goes to the list and changes neither the mode, the staged selections,
\* parentID nor the store, and starts no command (the hotkeys, space, q,
\* ctrl+s and backspace are not interpreted; esc only closes the prompt).
\* Enter with the prompt open only closes it and keeps the visible items as
\* the list's items, without descending, applying or committing; the next
\* enter, the prompt being closed, is a normal confirm (in the contexts
\* list: the descent into the highlighted context's compartments).
C24_FilteringGuardsKeys ==
    /\ [][ (prog = "running" /\ Active.filtering /\ nupd' # nupd) =>
             /\ NavState' = NavState
             /\ \A c \in BagToSet(cmds') : BagIn(c, cmds)
         ]_vars
    /\ [][ KeyFilterCancel => (prog' = "running" /\ ~m'.lists[m.mode].filtering)
         ]_vars
    /\ [][ (KeyEnter /\ Active.filtering) =>
             /\ ~m'.lists[m.mode].filtering
             /\ m'.lists[m.mode].items \in VisibleItems(Active.items)
             /\ \A md \in Modes \ {m.mode} : m'.lists[md] = m.lists[md]
             /\ m'.compCache = m.compCache
             /\ m'.regionCache = m.regionCache
             /\ cmds' = cmds
             /\ prog' = "running"
         ]_vars
    /\ [][ (KeyEnter /\ ~Active.filtering /\ m.mode = "contexts"
                     /\ HasSelected(Active)) =>
             /\ m'.mode = "compartments"
             /\ m'.ctxItem = Selected(Active)
             /\ cmds' = cmds (+) SetToBag({Cmd("comps", m'.parentID,
                                               Selected(Active))})
         ]_vars

\* The filter prompt of the contexts list was opened, enter froze the one
\* context the filter left visible (DEV, the second of two) as the list,
\* and the next enter descended into it; four messages were handled.
C24_Witness ==
    /\ prog = "running"
    /\ m.mode = "compartments"
    /\ ~m.lists["contexts"].filtering
    /\ m.lists["contexts"].items = <<contextItemForProfile("DEV")>>
    /\ m.lists["contexts"].cursor = 0
    /\ m.ctxItem = contextItemForProfile("DEV")
    /\ nupd = 4

\* The parent ids oci.FetchCompartments has been called for in this run of
\* the picker: those whose result is cached and those whose result is still
\* undelivered (a result answered from the cache is of a cached parent).
Fetched ==
    DOMAIN m.compCache \cup
    {x.parent : x \in {y \in BagToSet(cmds) : y.done /\ y.kind = "comps"}}

\* Command c runs in this step and calls oci.FetchCompartments.
RemoteFetch(c) ==
    /\ RunCmd(c)
    /\ c.kind = "comps"
    /\ ~MapHas(m.compCache, c.parent)

\* C25: compartment children are fetched once per run and parent id: a load
\* of a parent that is in the cache answers from the cache without a remote
\* call; over any sequence of navigation events (confirm and ascend
\* repeated before earlier loads have completed included) the remote fetch
\* is called at most once for each parent id; and a cache entry, once
\* written, is never removed.
C25_FetchedOncePerParent ==
    [][ /\ \A c \in BagToSet(cmds) :
              /\ (RunCmd(c) /\ c.kind = "comps"
                            /\ MapHas(m.compCache, c.parent)) =>
                    BagIn([c EXCEPT !.done = TRUE,
                                    !.items = m.compCache[c.parent]], cmds')
              /\ RemoteFetch(c) => c.parent \notin Fetched
        /\ prog = "running" =>
              \A p \in DOMAIN m.compCache :
                  /\ MapHas(m'.compCache, p)
                  /\ m'.compCache[p] = m.compCache[p]
      ]_vars

\* C25 without the at-most-once part, which holds: a load that finds its
\* parent cached when it runs answers from the cache, a remote call is made
\* only for a parent that is not cached at that moment, and cache entries
\* are neither removed nor changed.
C25_CacheAnswersAndKeeps ==
    [][ /\ \A c \in BagToSet(cmds) :
              (RunCmd(c) /\ c.kind = "comps"
                         /\ MapHas(m.compCache, c.parent)) =>
                    BagIn([c EXCEPT !.done = TRUE,
                                    !.items = m.compCache[c.parent]], cmds')
        /\ prog = "running" =>
              \A p \in DOMAIN m.compCache :
                  /\ MapHas(m'.compCache, p)
                  /\ m'.compCache[p] = m.compCache[p]
      ]_vars

\* C26: a compartment fetch that fails produces a message with the error
\* and the parent id the fetch was for; when Update handles it the program
\* ends with that error in the model (the command returns it), nothing is
\* written to compCache, and the Config is neither upserted nor saved.
C26_FetchFailureEndsSession ==
    [][ /\ \A c \in BagToSet(cmds) :
              RemoteFetch(c) =>
                  \E x \in BagToSet(cmds') :
                      /\ x.done /\ x.kind = "comps"
                      /\ x.parent = c.parent
                      /\ x.ctx = c.ctx
                      /\ (x.err # Nil => x.items = <<>>)
                      /\ (x.err = Nil => x.items = Children(c.parent))
                      /\ ~BagIn(x, cmds) \/ CopiesIn(x, cmds') > CopiesIn(x, cmds)
        /\ \A msg \in BagToSet(cmds) :
              (CompResult(msg) /\ msg.err # Nil) =>
                  /\ prog' = "quit"
                  /\ m'.err = msg.err
                  /\ m'.compCache = m.compCache
                  /\ ~MapHas(m'.compCache, msg.parent)
                     \/ MapHas(m.compCache, msg.parent)
                  /\ m'.cfg = m.cfg
                  /\ file' = file
                  /\ nsave' = nsave
                  /\ ~m'.finalized
                  /\ m'.selected = ""
      ]_vars

\* The children of t1 were fetched and cached, the user entered c1, the
\* fetch of c1's children failed and the picker ended with the error:
\* nothing cached for c1, nothing saved.
C26_Witness ==
    /\ prog = "quit"
    /\ m.err = ErrFetch
    /\ m.parentID = "c1"
    /\ MapHas(m.compCache, "t1")
    /\ ~MapHas(m.compCache, "c1")
    /\ ~m.finalized
    /\ m.selected = ""
    /\ nsave = 0
    /\ m.cfg = file

\* C27: a compartment result delivered after the user has navigated
\* elsewhere (its parent is not the current parentID) is folded in
\* harmlessly: it is cached under the parent it was fetched for, parentID
\* stays, and the compartment list, which showed the children of the
\* current parentID, still shows them afterwards, so that a following enter
\* descends into a child of parentID or, the list being empty, commits a
\* parentID that has no children.
C27_LateResultHarmless ==
    [][ \A msg \in BagToSet(cmds) :
          (/\ CompResult(msg)
           /\ msg.err = Nil
           /\ m.mode = "compartments"
           /\ msg.parent # m.parentID
           /\ m.lists["compartments"].items = Children(m.parentID)) =>
              /\ m'.compCache = MapPut(m.compCache, msg.parent, msg.items)
              /\ m'.parentID = m.parentID
              /\ m'.mode = "compartments"
              /\ m'.lists["compartments"].items = Children(m'.parentID)
              /\ IF Len(m'.lists["compartments"].items) = 0
                 THEN Children(m'.parentID) = <<>>
                 ELSE \A i \in 1..Len(m'.lists["compartments"].items) :
                        m'.lists["compartments"].items[i].parent = m'.parentID
      ]_vars

\* The part of C27 that holds: a late result is cached under the parent it
\* was fetched for and leaves parentID, the mode and the staged selections
\* as they are.
C27_LateResultCachedUnderItsParent ==
    [][ \A msg \in BagToSet(cmds) :
          (CompResult(msg) /\ msg.err = Nil) =>
              /\ m'.compCache = MapPut(m.compCache, msg.parent, msg.items)
              /\ m'.parentID = m.parentID
              /\ m'.mode = m.mode
              /\ Staged(m') = Staged(m)
      ]_vars

-----------------------------------------------------------------------------
(* Claims about primeTenancyNames *)

\* The tenancies whose identity lookup is in flight.
InFlight == {t \in AllTenancies : gor[t].pc = "fetch"}

\* The goroutines the call has started.
Started == {t \in AllTenancies : gor[t].pc # "none"}

\* C28: during primeTenancyNames at most 4 identity lookups are in flight
\* at any instant; every write and every read of the tenancy name cache
\* happens while its RWMutex is held (exclusively for a write, shared for
\* a read); the call returns only after every goroutine it started has
\* finished; and, every lookup returning, the call does return.
C28_BoundedFanOutJoins ==
    /\ [](/\ Cardinality(InFlight) <= SemCap
          /\ sem <= SemCap
          /\ ~(tenancyNamesMu.writer # Nil /\ tenancyNamesMu.readers > 0))
    /\ [][ tenancyNames' # tenancyNames =>
             \E t \in AllTenancies :
                 /\ GoWrite(t)
                 /\ tenancyNamesMu.writer = t
                 /\ tenancyNamesMu.readers = 0
                 /\ \A u \in AllTenancies \ {t} :
                        gor[u].pc \notin {"locked", "written"}
         ]_vars
    /\ [][ ScanRead =>
             /\ tenancyNamesMu.readers = 1
             /\ tenancyNamesMu.writer = Nil
             /\ \A u \in AllTenancies : gor[u].pc \notin {"locked", "written"}
         ]_vars
    /\ [](prime.pc = "returned" =>
             /\ Started = DOMAIN prime.needed
             /\ \A t \in Started : gor[t].pc = "done"
             /\ wg = 0 /\ sem = 0
             /\ tenancyNamesMu = Unlocked)
    /\ (prime.pc \in {"scan", "rlocked", "spawn"}) ~> (prime.pc = "returned")

\* Five goroutines were started; four lookups are in flight and fill the
\* channel, the fifth goroutine waits for a place, the caller is in Wait.
C28_Witness ==
    /\ prime.pc = "spawn"
    /\ prime.tospawn = {}
    /\ Cardinality(Started) = 5
    /\ Cardinality(InFlight) = 4
    /\ sem = SemCap
    /\ wg = 5
    /\ \E t \in AllTenancies : gor[t].pc = "spawned"


\* A tenancy whose name the cache held when the call started.
CachedAtCall(t) == MapGet(prime.names0, t) # ""

\* C29: one primeTenancyNames call issues at most one identity lookup per
\* distinct tenancy id among the given profiles, and none for a tenancy
\* id whose name is already cached; a failed lookup is swallowed (the
\* goroutine ends, the cache keeps no entry for the tenancy), a successful
\* one makes lookupTenancyName return the fetched name, and a tenancy
\* without a cached name is titled by its abbreviated id.
C29_OneLookupPerUncachedTenancy ==
    /\ [](\A t \in AllTenancies :
            /\ nlookup[t] <= 1
            /\ nlookup[t] = 1 =>
                 /\ \E p \in prime.profiles : Profile(p).tenancy = t
                 /\ ~CachedAtCall(t))
    /\ [][ \A t \in AllTenancies :
             (GoFetched(t) /\ gor'[t].pc = "exit") =>
                 /\ tenancyNames' = tenancyNames
                 /\ prog' = prog
         ]_vars
    /\ [](prime.pc = "returned" =>
            \A t \in AllTenancies :
                /\ (nlookup[t] = 1 /\ gor[t].name = "") =>
                       lookupTenancyName(t) = ""
                /\ gor[t].name # "" =>
                       /\ gor[t].name = FriendlyName(t)
                       /\ lookupTenancyName(t) = gor[t].name
                /\ nlookup[t] = 0 =>
                       lookupTenancyName(t) = MapGet(prime.names0, t)
                /\ lookupTenancyName(t) = "" =>
                       TenancyTitle(t) = abbreviateOCID(t)
                /\ lookupTenancyName(t) # "" =>
                       TenancyTitle(t) = FriendlyName(t))
    /\ [](/\ abbreviateOCID("t4") = "t4"
          /\ abbreviateOCID("ocid1.tenancy.oc1..aaaaaaaalab")
                = "ocid1." \o "..." \o "aaalab")

\* The call over six profiles of five tenancies has returned: t2 was
\* cached and was not looked up, t1 (two profiles) was looked up once and
\* is cached now, the lookup of the long tenancy id failed and its title
\* is the abbreviated id.
C29_Witness ==
    /\ prime.pc = "returned"
    /\ Cardinality(prime.profiles) = 6
    /\ CachedAtCall("t2") /\ nlookup["t2"] = 0
    /\ nlookup["t1"] = 1
    /\ lookupTenancyName("t1") = FriendlyName("t1")
    /\ nlookup["ocid1.tenancy.oc1..aaaaaaaalab"] = 1
    /\ lookupTenancyName("ocid1.tenancy.oc1..aaaaaaaalab") = ""
    /\ TenancyTitle("ocid1.tenancy.oc1..aaaaaaaalab") = "ocid1....aaalab"
    /\ TenancyTitle("t3") = "t3"
    /\ nlookup["t3"] = 1

-----------------------------------------------------------------------------
(* Claims about the commit from the contexts list *)

\* The staged compartment applies to the row: a compartment is staged, a
\* parent is set, and the row has the name of the active context.
StagedForRow(mm, row) ==
    /\ mm.pendingSelectionID # ""
    /\ mm.parentID # ""
    /\ mm.ctxItem.name = row.name

\* C30: a commit (q, ctrl+s) from contexts mode on a context row persists
\* that row's context with compartment = parentID when a compartment is
\* staged, parentID is non-empty and the row's name is the name of the
\* context that was active before; in every other case with the row's own
\* compartment, or its tenancy when that is empty.
C30_ContextsCommitCompartment ==
    [][ (KeySave /\ m.mode = "contexts" /\ HasSelected(Active)) =>
          LET row == Selected(Active)
              compartment == IF StagedForRow(m, row) THEN m.parentID
                             ELSE IF row.compartment # "" THEN row.compartment
                             ELSE row.tenancy
          IN  /\ nsave' = nsave + 1 /\ prog' = "quit"
              /\ m'.ctxItem = [row EXCEPT !.compartment = compartment]
              /\ m'.cfg.current = row.name
              /\ HasEntry(m'.cfg.contexts,
                          [row EXCEPT !.compartment = compartment])
              /\ m'.err = Nil =>
                    /\ file' = m'.cfg
                    /\ GetContext(file', row.name).ctx.compartment
                          = compartment
      ]_vars

\* q in contexts mode on the row of the active context, for which a
\* compartment other than the row's own was staged: the saved document
\* has the row's context with the staged compartment.
C30_Witness ==
    /\ prog = "quit" /\ nsave = 1 /\ m.err = Nil
    /\ m.mode = "contexts"
    /\ HasSelected(m.lists["contexts"])
    /\ LET row == Selected(m.lists["contexts"])
       IN  /\ row.name = m.ctxItem.name
           /\ m.pendingSelectionID # ""
           /\ m.parentID # StartParent(row)
           /\ GetContext(file, row.name).ctx.compartment = m.parentID

\* q in contexts mode on a row other than the active context while a
\* compartment is staged: the row's own compartment is saved.
C30_OtherRowState ==
    /\ prog = "quit" /\ nsave = 1 /\ m.err = Nil
    /\ m.mode = "contexts"
    /\ m.pendingSelectionID # ""
    /\ m.parentID # m.pendingSelectionID
    /\ m.parentID = StartParent(Selected(m.lists["contexts"]))

-----------------------------------------------------------------------------
(* Claims about what a commit persists *)

\* C31: whenever a compartment is staged (pendingSelectionID non-empty)
\* the compartment a commit would persist, parentID, is the staged one, in
\* every navigation state of the running picker: also after an ascent and
\* after compartments mode was left and opened again with C.
C31_StagedCompartmentIsParent ==
    (prog = "running" /\ m.pendingSelectionID # "") =>
        m.parentID = m.pendingSelectionID

\* C31 where it does hold: the step that stages a compartment leaves
\* parentID equal to the staged id.
C31_StagingSetsParent ==
    [][ (KeySpace /\ m.mode = "compartments" /\ HasSelected(Active)) =>
          /\ m'.pendingSelectionID = Selected(Active).id
          /\ m'.parentID = m'.pendingSelectionID
      ]_vars


\* A region was applied (enter) or staged (space) in regions mode and is
\* the region of the active context.
RegionApplied(mm) == mm.regionSet /\ mm.ctxItem.name # ""

\* C32: a region that was applied or staged in regions mode for the
\* active context is the region the next commit of that same context
\* persists, whichever mode the commit is issued from.
C32_AppliedRegionPersisted ==
    [][ (nsave' # nsave /\ RegionApplied(m)
            /\ m'.ctxItem.name = m.ctxItem.name) =>
          /\ m'.ctxItem.region = m.ctxItem.region
          /\ HasEntry(m'.cfg.contexts, m'.ctxItem)
      ]_vars

\* C32 for the commit from compartments mode alone: the applied region is
\* kept.
C32_AppliedRegionPersistedFromCompartments ==
    [][ (nsave' # nsave /\ RegionApplied(m)
            /\ m.mode = "compartments"
            /\ m'.ctxItem.name = m.ctxItem.name) =>
          /\ m'.ctxItem.region = m.ctxItem.region
          /\ HasEntry(m'.cfg.contexts, m'.ctxItem)
      ]_vars

\* C32 for the commit from the contexts list alone.
C32_AppliedRegionPersistedFromContexts ==
    [][ (nsave' # nsave /\ RegionApplied(m) /\ m.mode = "contexts"
            /\ m'.ctxItem.name = m.ctxItem.name) =>
          m'.ctxItem.region = m.ctxItem.region
      ]_vars


\* C33: the session reports a committed selection (finalized and
\* selected = the context's name, which makes the caller print "Switched
\* to context ...") only if the upsert and the Save both succeeded; when
\* Save fails the session ends with the error, finalized false and
\* selected empty.
C33_ReportedOnlyIfSaved ==
    prog = "quit" =>
        /\ (m.finalized \/ m.selected # "") =>
              /\ m.err = Nil
              /\ file = m.cfg
        /\ m.err # Nil => (~m.finalized /\ m.selected = "")

\* C33 for the commits whose Save succeeded: the report is true of the
\* file.
C33_ReportedAndSaved ==
    (prog = "quit" /\ m.err = Nil /\ m.selected # "") =>
        /\ m.finalized
        /\ file = m.cfg
        /\ file.current = m.selected

-----------------------------------------------------------------------------
(* Claims about processes and connections sharing the store *)

\* Every request read by the daemon has been answered and no handler is
\* running.
AllAnswered ==
    /\ ~crashed
    /\ \A c \in Conns : pc[c] \in {"read", "closed"} /\ nread[c] = nwritten[c]

\* C34: with two connections issuing use_context, add_context and
\* delete_context concurrently and every Save succeeding, once every
\* request has been answered the persisted document equals the daemon's
\* in-memory store: a Save of an older snapshot never overwrites the Save
\* of a newer one.
C34_FileEqualsStoreWhenAnswered ==
    (AllAnswered /\ ~saveFailed) => file = svc

\* C34 when one connection alone has sent requests: no two handlers
\* overlap, and the file equals the store once all are answered.
C34_FileEqualsStoreWhenAlone ==
    (AllAnswered /\ ~saveFailed /\ (\E c \in Conns : nread[c] = 0)) =>
        file = svc


\* Each context name occurs at most once in the list.
NamesOnce(contexts) ==
    \A i, j \in 1..Len(contexts) :
        contexts[i].name = contexts[j].name => i = j

\* C35: under any interleaving of concurrent daemon requests, every list
\* response (as writeResp marshals it) and every document Save writes has
\* each context name at most once and is the store's context list of some
\* instant between the request's arrival and its response.
C35_ListsAndSavesAreStoreStates ==
    [][ \A c \in Conns :
          /\ (WriteResp(c) /\ resp[c].ok /\ resp[c].data.kind = "contexts") =>
                /\ NamesOnce(resp[c].data.val)
                /\ resp[c].data.val \in loc[c].hist
          /\ (SaveIO(c) /\ loc'[c].wrote) =>
                /\ NamesOnce(file'.contexts)
                /\ file'.contexts \in loc[c].hist
      ]_vars

\* C35 when one connection alone has sent requests.
C35_ListsAndSavesAreStoreStatesWhenAlone ==
    [][ \A c \in Conns :
          (\E d \in Conns : nread[d] = 0) =>
              /\ (WriteResp(c) /\ resp[c].ok
                     /\ resp[c].data.kind = "contexts") =>
                    /\ NamesOnce(resp[c].data.val)
                    /\ resp[c].data.val = svc.contexts
              /\ (SaveIO(c) /\ loc'[c].wrote) =>
                    /\ NamesOnce(file'.contexts)
                    /\ file'.contexts = svc.contexts
      ]_vars


\* The CLI command of process q has ended without an error.
Succeeded(q) == pc[q] = "done" /\ cli[q].cmd # "none" /\ cli[q].err = Nil

\* The document shows what the add, delete or use command of process q did.
EffectIn(q, doc) ==
    CASE cli[q].cmd = "add" -> HasEntry(doc.contexts, cli[q].ctx)
      [] cli[q].cmd = "delete" -> ~HasName(doc.contexts, cli[q].name)
      [] OTHER -> doc.current = cli[q].name

\* C36: no update is lost between processes sharing a config path: when
\* two load-modify-save sequences (two CLI add or delete commands for
\* different names) have run, concurrently or not, and both succeeded, the
\* persisted document contains the effect of both.
C36_NoLostUpdate ==
    \A p, q \in CliProcs :
        (/\ p # q
         /\ Succeeded(p) /\ Succeeded(q)
         /\ cli[p].cmd \in {"add", "delete"}
         /\ cli[q].cmd \in {"add", "delete"}
         /\ cli[p].name # cli[q].name) =>
            (EffectIn(p, file) /\ EffectIn(q, file))

\* C36 for one load-modify-save sequence taken alone: what Save writes is
\* what Load read with the command's change applied, and when the file
\* was not written in between the command's effect is in it.
C36_SaveWritesLoadedPlusChange ==
    [][ \A q \in CliProcs :
          (SaveIO(q) /\ loc'[q].wrote) =>
              /\ file' = cli[q].cfg
              /\ cli[q].cmd \in {"add", "delete"} => EffectIn(q, file')
      ]_vars


\* What getCurrent answers from a store.
GetCurrentAnswer(doc) ==
    IF doc.current = "" THEN Fail(ErrNoCurrent)
    ELSE IF GetContext(doc, doc.current).err # Nil
    THEN Fail(GetContext(doc, doc.current).err)
    ELSE Ok(Data("context", GetContext(doc, doc.current).ctx))

\* What the read-only request r is answered from a store.
AnswerFrom(doc, r) ==
    IF r.method = "list" THEN Ok(Data("contexts", doc.contexts))
    ELSE GetCurrentAnswer(doc)

\* The context name a request is about.
ReqName(r) == IF r.method = "add_context" THEN r.context.name ELSE r.name

\* The daemon request r does not itself undo what the CLI command of
\* process q did: it is about another name and, after a use command, does
\* not select a context.
Unrelated(r, q) ==
    /\ ReqName(r) # cli[q].name
    /\ ~(cli[q].cmd = "use" /\ r.method = "use_context")

\* C37: the daemon's answers reflect the persisted store: a get_current or
\* list request read after another process (a CLI use, add or delete) has
\* saved its change is answered with the changed state, all saves having
\* succeeded.
C37_AnswersReflectPersistedStore ==
    \A c \in Conns :
        (/\ pc[c] = "resp"
         /\ req[c].method \in {"get_current", "list"}
         /\ loc[c].since # {}
         /\ ~saveFailed) =>
            resp[c] = AnswerFrom(file, req[c])

\* C37, second half: a daemon mutation read after the other process's save
\* does not write back what that process removed or replaced: what the CLI
\* command did is still in the file after the daemon's Save.
C37_MutationKeepsOtherProcessChange ==
    [][ \A c \in Conns : \A q \in loc[c].since :
          (/\ SaveIO(c) /\ loc'[c].wrote
           /\ Unrelated(req[c], q)
           /\ EffectIn(q, file)) =>
              EffectIn(q, file')
      ]_vars

\* C37 while no other process has written the file: the daemon's store is
\* the persisted one and its answers reflect it.
C37_AnswersReflectStoreWhenOnlyWriter ==
    \A c \in Conns :
        (/\ pc[c] = "resp"
         /\ req[c].method \in {"get_current", "list"}
         /\ \A q \in CliProcs : pc[q] \notin {"save_unlock", "done"}
         /\ ~saveFailed) =>
            resp[c] = AnswerFrom(file, req[c])


-----------------------------------------------------------------------------
(* Claims about the picker's caches and about ascending *)

\* The goroutine of the compartment load c has been started and has not
\* yet looked parent up in m.compCache.
CacheReadAhead(c) == ~c.done /\ c.kind = "comps"

\* The result msg of a compartment load waits for Update, which will store
\* it into m.compCache.
CacheWriteAhead(msg) == msg.done /\ msg.kind = "comps" /\ msg.err = Nil

\* C38: the compartment cache map is never read by a background fetch task
\* while the event loop writes it: no load whose cache lookup is still to
\* come is in flight when Update is about to store a result, the two being
\* unordered otherwise.
C38_CacheReadNeverBesideWrite ==
    prog = "running" =>
        ~\E c, msg \in BagToSet(cmds) :
            CacheReadAhead(c) /\ CacheWriteAhead(msg)


\* The region list Update(regionResultMsg) displays when it caches the
\* list cached: the static list in place of an empty one.
ShownWhenFetched(cached) ==
    IF Len(cached) = 0 THEN fallbackRegions ELSE cached

\* r or R opens the region list of a context whose regions are cached.
ReenterCachedRegions ==
    \/ Key_r /\ m.mode = "contexts" /\ HasSelected(Active)
          /\ MapHas(m.regionCache, Selected(Active).name)
    \/ Key_R /\ m.mode # "contexts"
          /\ MapHas(m.regionCache, m.ctxItem.name)

\* C39: re-entering regions mode for a context whose region list is cached
\* shows the region list that was shown when its fetch completed, and that
\* list is not empty, also when the remote fetch succeeded with an empty
\* list and the static list was shown.
C39_ReentryShowsFetchedRegions ==
    [][ /\ \A msg \in BagToSet(cmds) :
              RegionResult(msg) =>
                 m'.lists["regions"].items =
                    ShownWhenFetched(m'.regionCache[msg.ctx.name])
        /\ ReenterCachedRegions =>
              /\ m'.lists["regions"].items =
                    ShownWhenFetched(m.regionCache[m'.ctxItem.name])
              /\ Len(m'.lists["regions"].items) > 0
      ]_vars

\* C39 for a cached list that is not empty (fetched regions, or the static
\* list cached after an error): re-entry shows it again as it was shown.
C39_ReentryShowsNonEmptyCachedRegions ==
    [][ (ReenterCachedRegions
           /\ Len(m.regionCache[m'.ctxItem.name]) > 0) =>
              /\ m'.lists["regions"].items =
                    ShownWhenFetched(m.regionCache[m'.ctxItem.name])
              /\ Len(m'.lists["regions"].items) > 0
      ]_vars


\* The compartment ids of the remote tree.
CompIds == {"t1", "c1", "c2", "c3"}

\* The parent a compartment has in the remote tree, "" for a root.
TreeParent(id) ==
    IF \E p \in CompIds : \E i \in 1..Len(Children(p)) : Children(p)[i].id = id
    THEN CHOOSE p \in CompIds :
            \E i \in 1..Len(Children(p)) : Children(p)[i].id = id
    ELSE ""

RECURSIVE Rooted(_, _)
\* The parent chain of id in the remote tree leads to root.
Rooted(id, root) ==
    \/ id = root
    \/ TreeParent(id) # "" /\ Rooted(TreeParent(id), root)

RECURSIVE Depth(_, _)
\* The length of that chain.
Depth(id, root) ==
    IF id = root \/ TreeParent(id) = "" THEN 0
    ELSE 1 + Depth(TreeParent(id), root)

\* The ascends still needed to reach the contexts list.
AscendsLeft(mm) ==
    IF mm.mode = "compartments"
    THEN Depth(mm.parentID, mm.ctxItem.tenancy) + 1
    ELSE 0

\* C40: ascending leads back to the context list: in compartments mode,
\* the parent ids forming a tree rooted at the active context's tenancy,
\* every ascend (backspace, delete) lowers the number of ascends left,
\* which is the depth of parentID plus one and is zero only outside
\* compartments mode; the new parentID is in the tree again, and a fetch
\* result that arrives in between changes neither the mode nor parentID.
\* Repeating the ascend thus reaches contexts mode within depth + 1 steps
\* and never returns to a parent id.
C40_AscendReachesContexts ==
    [][ /\ (KeyBack /\ m.mode = "compartments"
              /\ Rooted(m.parentID, m.ctxItem.tenancy)) =>
              /\ prog' = "running"
              /\ AscendsLeft(m') < AscendsLeft(m)
              /\ m'.mode \in {"compartments", "contexts"}
              /\ m'.mode = "compartments" =>
                    Rooted(m'.parentID, m'.ctxItem.tenancy)
        /\ \A msg \in BagToSet(cmds) :
              (CompResult(msg) /\ msg.err = Nil) =>
                  AscendsLeft(m') = AscendsLeft(m)
      ]_vars

\* From c1 the user went up twice, as many times as c1 is deep plus one,
\* and is back at the contexts list; the loads the descent and the first
\* ascend started are still in flight.
C40_Witness ==
    /\ prog = "running"
    /\ m.mode = "contexts"
    /\ m.ctxItem.tenancy = "t1"
    /\ m.parentID = "t1"
    /\ MapGet(m.parentMap, "c1") = "t1"
    /\ BagIn(Cmd("comps", "c1", m.ctxItem), cmds)
    /\ BagIn(Cmd("comps", "t1", m.ctxItem), cmds)
    /\ AscendsLeft(m) = 0

====
